---- MODULE Spec2Model ----
(***************************************************************************)
(* Verification model of the Olist seller dashboard's analytics and        *)
(* decision engine (claude_eda/dashboard): the rule engines, the health    *)
(* scorer, the metrics aggregator and the logistics simulator.             *)
(*                                                                         *)
(* Fixed-point units used for the program's floats:                        *)
(*   review averages        hundredths of a point   (3.5  -> 350)          *)
(*   rates and percentages  thousandths             (0.10 -> 100)          *)
(*   days, photo counts     tenths                  (20.0 -> 200)          *)
(*   prices                 whole R$                                       *)
(*   0-100 scores           tenths of a point       (50.0 -> 500)          *)
(***************************************************************************)
EXTENDS Integers, Sequences, FiniteSets, TLC

VARIABLES
    pc,                 \* which computation produced the values on display
    metrics,            \* the SellerMetrics record handed to the engines
    advices,            \* list returned by generate_all_advice
    delivery,           \* dict returned by compute_seller_delivery
    inventory,          \* dict returned by get_seller_inventory_summary
    delivery_advices,   \* list returned by generate_delivery_advice
    merged,             \* the merged table returned by build_merged_table
    selected_seller_id, \* the seller the page was opened for
    kpis,               \* the arguments passed to the health scorer
    dimension_scores,   \* dict returned by compute_dimension_scores
    health_score,       \* value returned by compute_health_score
    cluster_df,         \* the table returned by load_seller_clusters
    percentiles,        \* dict returned by compute_percentile_ranks
    seller_zip,         \* the seller's zip code prefix in the sellers table
    wh_recs,            \* the table returned by load_warehouse_recommendations
    logistics,          \* dict returned by compute_seller_logistics
    market,             \* the tables and arguments read by the market analyzer
    regional_sd,        \* table returned by compute_regional_supply_demand
    growth_regions,     \* list returned by compute_seller_growth_regions
    normalized,         \* series returned by _normalize
    inv_tables,         \* the four inventory tables read
    growth_roadmap,     \* phases returned by generate_growth_roadmap
    delivery_roadmap,   \* phases returned by generate_delivery_roadmap
    review_text_df,         \* review rows handed to analyze_seller_reviews
    review_keyword_analysis, \* dict returned by analyze_seller_reviews
    metrics_cache,      \* st.cache_data entries of compute_seller_metrics, by seller_id
    run_log,            \* the results of the page runs so far
    csv_tables,         \* the merged rows the CSV files on disk hold now
    strengths,          \* first list returned by identify_strengths_weaknesses
    weaknesses,         \* second list returned by identify_strengths_weaknesses
    avg_distance_km,    \* first value returned by _compute_distance_analysis
    distance_delivery   \* table returned by _compute_distance_analysis

adviceVars == <<advices, delivery, inventory, delivery_advices>>
healthVars == <<kpis, dimension_scores, health_score>>
rankVars == <<cluster_df, percentiles>>
logisticsVars == <<seller_zip, wh_recs, logistics>>
marketVars == <<market, regional_sd, growth_regions, normalized>>
consultingVars == <<inv_tables, growth_roadmap, delivery_roadmap>>
reviewVars == <<review_text_df, review_keyword_analysis>>
pipelineVars == <<metrics_cache, run_log>>
cacheVars == <<csv_tables>>
strengthVars == <<strengths, weaknesses>>
distanceVars == <<avg_distance_km, distance_delivery>>

vars == <<pc, metrics, merged, selected_seller_id,
          adviceVars, healthVars, rankVars, logisticsVars, marketVars, consultingVars, reviewVars, pipelineVars, cacheVars, strengthVars, distanceVars>>

None == "None"

(***************************************************************************)
(* Generic helpers                                                         *)
(***************************************************************************)
RECURSIVE SeqSum(_)
SeqSum(s) == IF s = <<>> THEN 0 ELSE Head(s) + SeqSum(Tail(s))

Prefix(s, n) == SubSeq(s, 1, IF Len(s) < n THEN Len(s) ELSE n)

\* sorted(items, key=lambda x: x[1], reverse=True): stable, descending by the
\* second component; items is a sequence of <<key, value>> pairs.
RECURSIVE InsertDesc(_, _)
InsertDesc(x, s) ==
    IF s = <<>> THEN <<x>>
    ELSE IF Head(s)[2] >= x[2]
         THEN <<Head(s)>> \o InsertDesc(x, Tail(s))
         ELSE <<x>> \o s

RECURSIVE SortedDesc(_)
SortedDesc(s) ==
    IF s = <<>> THEN <<>>
    ELSE InsertDesc(s[Len(s)], SortedDesc(SubSeq(s, 1, Len(s) - 1)))

(***************************************************************************)
(* engine/benchmarks.py                                                    *)
(***************************************************************************)
\* CATEGORY_OPPORTUNITY, in dict insertion order
CATEGORY_OPPORTUNITY ==
    << <<"watches_gifts", 7100>>, <<"computers_accessories", 5200>>,
       <<"health_beauty", 4800>>, <<"bed_bath_table", 2657>>,
       <<"sports_leisure", 2400>>, <<"furniture_decor", 2200>>,
       <<"housewares", 1900>>, <<"auto", 1800>>,
       <<"garden_tools", 1600>>, <<"cool_stuff", 1500>> >>

\* REGION_DEMAND_SUPPLY, in dict insertion order, ratios in tenths
REGION_DEMAND_SUPPLY ==
    << <<"RJ", 724>>, <<"MG", 853>>, <<"BA", 1725>>, <<"RS", 901>>,
       <<"PE", 1788>>, <<"CE", 1950>>, <<"PA", 2100>>, <<"PR", 685>>,
       <<"SC", 552>>, <<"SP", 350>> >>

(***************************************************************************)
(* engine/rule_engine.py : the general consulting catalogue                *)
(***************************************************************************)
\* ConsultingAdvice; rule is the position of the producing rule in the
\* catalogue, title an ASCII tag of the Korean title, detail the values the
\* description interpolates.
ConsultingAdvice(r, t, c, p, tv, d) ==
    [rule |-> r, title |-> t, category |-> c, priority |-> p,
     target_value |-> tv, detail |-> d]

\* priority_order.get(a.priority, 99)
priority_order(p) ==
    CASE p = "critical" -> 0
      [] p = "high"     -> 1
      [] p = "medium"   -> 2
      [] p = "low"      -> 3
      [] OTHER          -> 99

\* list.sort(key=...) is stable: an element goes behind every element already
\* placed whose key is <= its own.
RECURSIVE InsertByPriority(_, _)
InsertByPriority(x, s) ==
    IF s = <<>> THEN <<x>>
    ELSE IF priority_order(Head(s).priority) <= priority_order(x.priority)
         THEN <<Head(s)>> \o InsertByPriority(x, Tail(s))
         ELSE <<x>> \o s

RECURSIVE StableSort(_)
StableSort(s) ==
    IF s = <<>> THEN <<>>
    ELSE InsertByPriority(s[Len(s)], StableSort(SubSeq(s, 1, Len(s) - 1)))

\* a sort that forgets to order the list
SortSkipped(s) == s

\* a sort that is not stable: equal keys come out in reverse
RECURSIVE InsertBeforeEqual(_, _)
InsertBeforeEqual(x, s) ==
    IF s = <<>> THEN <<x>>
    ELSE IF priority_order(Head(s).priority) < priority_order(x.priority)
         THEN <<Head(s)>> \o InsertBeforeEqual(x, Tail(s))
         ELSE <<x>> \o s

RECURSIVE UnstableSortRec(_)
UnstableSortRec(s) ==
    IF s = <<>> THEN <<>>
    ELSE InsertBeforeEqual(s[Len(s)], UnstableSortRec(SubSeq(s, 1, Len(s) - 1)))

UnstableSort(s) == UnstableSortRec(s)

\* advices.sort(key=lambda a: priority_order.get(a.priority, 99))
sort_by_priority(s) == StableSort(s)

\* rule 1 with its upper bound included
rule_review_critical_inclusive(m) ==
    IF m.avg_review <= 0 \/ m.avg_review > 350 THEN <<>>
    ELSE << ConsultingAdvice(1, "review_urgent", "review", "critical",
                             "3.5 or more", <<m.avg_review, m.low_review_pct>>) >>

\* rule 1: review below 3.5
rule_review_critical(m) ==
    IF m.avg_review <= 0 \/ m.avg_review >= 350 THEN <<>>
    ELSE << ConsultingAdvice(1, "review_urgent", "review", "critical",
                             "3.5 or more", <<m.avg_review, m.low_review_pct>>) >>

\* the tiers of rule 2 with the severity comparison slipped to >=
rule_delivery_delay_tier_slip(m) ==
    IF m.late_delivery_pct <= 100 THEN <<>>
    ELSE << ConsultingAdvice(2, "late_delivery_rate", "delivery",
                             IF m.late_delivery_pct >= 200 THEN "critical" ELSE "high",
                             "6% or less (Top Performer level)",
                             <<m.late_delivery_pct>>) >>

\* rule 2: late-delivery rate above 10%
rule_delivery_delay(m) ==
    IF m.late_delivery_pct <= 100 THEN <<>>
    ELSE << ConsultingAdvice(2, "late_delivery_rate", "delivery",
                             IF m.late_delivery_pct > 200 THEN "critical" ELSE "high",
                             "6% or less (Top Performer level)",
                             <<m.late_delivery_pct>>) >>

\* rule 3: fewer than 10 products; top_variety = CLUSTER_BENCHMARKS[0] 36.3
rule_product_variety(m) ==
    IF m.product_variety >= 10 THEN <<>>
    ELSE << ConsultingAdvice(3, "product_lineup", "product", "high",
                             "36 products (Top Performer average)",
                             <<m.product_variety>>) >>

\* rule 4: fewer than 2 photos on average
rule_photo_shortage(m) ==
    IF m.avg_photos >= 20 THEN <<>>
    ELSE << ConsultingAdvice(4, "photo_shortage", "product", "high",
                             "4 photos or more", <<m.avg_photos>>) >>

\* m.customer_state_dist["customers"].sum()
StateDistTotal(dist) == SeqSum([i \in 1..Len(dist) |-> dist[i].customers])

\* the customers of the state with the most customers, whichever it is
TopCustomers(dist) == IF dist = <<>> THEN 0 ELSE dist[1].customers

\* sp_row["customers"].iloc[0] if not sp_row.empty else 0
SpCustomers(dist) ==
    LET IsSp(row) == row.state = "SP"
        sp_row == SelectSeq(dist, IsSp)
    IN IF sp_row = <<>> THEN 0 ELSE sp_row[1].customers

\* rule 5: more than half of the customers in SP
rule_region_concentration(m) ==
    IF m.customer_state_dist = <<>> THEN <<>>
    ELSE LET total == StateDistTotal(m.customer_state_dist)
             sp    == SpCustomers(m.customer_state_dist)
         IN \* sp_share <= 0.50, sp_share = sp / total
            IF 2 * sp <= total THEN <<>>
            ELSE LET opportunity_regions == Prefix(SortedDesc(REGION_DEMAND_SUPPLY), 3)
                 IN << ConsultingAdvice(5, "sp_concentration", "reach", "medium",
                          "SP 40% or less",
                          [i \in 1..Len(opportunity_regions) |->
                              opportunity_regions[i][1]]) >>

\* the sweet-spot band with its lower end excluded
rule_review_sweet_spot_open(m) ==
    IF ~(350 < m.avg_review /\ m.avg_review < 400) THEN <<>>
    ELSE << ConsultingAdvice(6, "review_sweet_spot", "review", "high",
                             "4.0-4.5 (best revenue band)", <<m.avg_review>>) >>

\* rule 6: review in the 3.5-4.0 sweet spot
rule_review_sweet_spot(m) ==
    IF ~(350 <= m.avg_review /\ m.avg_review < 400) THEN <<>>
    ELSE << ConsultingAdvice(6, "review_sweet_spot", "review", "high",
                             "4.0-4.5 (best revenue band)", <<m.avg_review>>) >>

\* rule 7: high-opportunity categories the seller is not in
rule_category_expansion(m) ==
    IF m.category_revenue = <<>> THEN <<>>
    ELSE LET current_cats == {m.category_revenue[i] : i \in 1..Len(m.category_revenue)}
             NotCurrent(e) == e[1] \notin current_cats
             opportunities == SelectSeq(CATEGORY_OPPORTUNITY, NotCurrent)
         IN IF opportunities = <<>> THEN <<>>
            ELSE LET top3 == Prefix(SortedDesc(opportunities), 3)
                 IN << ConsultingAdvice(7, "category_expansion", "product", "medium",
                          "expand into the top categories",
                          [i \in 1..Len(top3) |-> top3[i][1]]) >>

\* rule 8: average price outside the R$30-100 volume zone
rule_price_optimization(m) ==
    IF m.avg_price <= 0 THEN <<>>
    ELSE IF 30 <= m.avg_price /\ m.avg_price <= 100 THEN <<>>
    ELSE IF m.avg_price < 30
         THEN << ConsultingAdvice(8, "price_raise", "pricing", "low",
                                  "R$30-100 (main volume zone)", <<m.avg_price>>) >>
         ELSE << ConsultingAdvice(8, "price_volume_line", "pricing", "low",
                                  "add a R$30-100 line", <<m.avg_price>>) >>

\* rule 9: average delivery above 20 days
rule_delivery_warning(m) ==
    IF m.avg_delivery_days <= 200 \/ m.avg_delivery_days = 0 THEN <<>>
    ELSE << ConsultingAdvice(9, "delivery_days", "delivery", "high",
                             "within 14 days", <<m.avg_delivery_days>>) >>

\* rule 10 with the late-delivery rate compared by >=
rule_low_review_diagnosis_inclusive(m) ==
    IF m.avg_review >= 350 \/ m.avg_review <= 0 THEN <<>>
    ELSE IF m.low_review_pct < 200 THEN <<>>
    ELSE LET is_delivery_issue ==
                 m.late_delivery_pct >= 150 \/ m.avg_delivery_days > 180
             cause == IF is_delivery_issue THEN "delivery"
                      ELSE "product quality/expectation"
         IN << ConsultingAdvice(10, "low_review_diagnosis", "review", "critical",
                                "10% or less", <<cause>>) >>

\* rule 10: cause of the low reviews (delivery vs product quality)
rule_low_review_diagnosis(m) ==
    IF m.avg_review >= 350 \/ m.avg_review <= 0 THEN <<>>
    ELSE IF m.low_review_pct < 200 THEN <<>>
    ELSE LET is_delivery_issue ==
                 m.late_delivery_pct > 150 \/ m.avg_delivery_days > 180
             cause == IF is_delivery_issue THEN "delivery"
                      ELSE "product quality/expectation"
         IN << ConsultingAdvice(10, "low_review_diagnosis", "review", "critical",
                                "10% or less", <<cause>>) >>

\* rule 11: cancellation rate above 2%
rule_cancel_rate(m) ==
    IF m.cancel_rate <= 20 THEN <<>>
    ELSE << ConsultingAdvice(11, "cancel_rate", "delivery",
                             IF m.cancel_rate > 50 THEN "high" ELSE "medium",
                             "2% or less", <<m.cancel_rate>>) >>

\* rule 12: repeat-customer rate below 3%
rule_repeat_customer(m) ==
    IF m.unique_customers < 10 \/ m.repeat_customer_rate >= 30 THEN <<>>
    ELSE << ConsultingAdvice(12, "repeat_customer", "growth", "medium",
                             "3% or more", <<m.repeat_customer_rate>>) >>

\* rka["issue_counts"].get(primary, 0); issue_counts is a sequence of
\* <<category, count>> pairs in insertion order
IssueCount(issue_counts, primary) ==
    LET IsPrimary(e) == e[1] = primary
        hit == SelectSeq(issue_counts, IsPrimary)
    IN IF hit = <<>> THEN 0 ELSE hit[1][2]

\* rule 13: the primary review-text issue covers 20% of the analysed reviews
rule_review_keyword_insight(m) ==
    LET rka == m.review_keyword_analysis IN
    IF rka = <<>> THEN <<>>                              \* not rka
    ELSE IF rka.issue_counts = <<>> THEN <<>>            \* not rka.get("issue_counts")
    ELSE IF rka.primary_issue = None THEN <<>>
    ELSE IF rka.analyzed_count = 0 THEN <<>>
    ELSE LET issue_count == IssueCount(rka.issue_counts, rka.primary_issue)
         IN \* pct < 0.20, pct = issue_count / analyzed
            IF 5 * issue_count < rka.analyzed_count THEN <<>>
            ELSE << ConsultingAdvice(13, "review_keyword", "review", "high",
                                     "primary issue complaints halved",
                                     <<rka.primary_issue, issue_count,
                                       rka.analyzed_count>>) >>

\* the rules in catalogue order, then the priority sort
generate_all_advice(m) ==
    sort_by_priority(
        rule_review_critical(m) \o rule_delivery_delay(m) \o
        rule_product_variety(m) \o rule_photo_shortage(m) \o
        rule_region_concentration(m) \o rule_review_sweet_spot(m) \o
        rule_category_expansion(m) \o rule_price_optimization(m) \o
        rule_delivery_warning(m) \o rule_low_review_diagnosis(m) \o
        rule_cancel_rate(m) \o rule_repeat_customer(m) \o
        rule_review_keyword_insight(m))

(***************************************************************************)
(* engine/delivery_rules.py : the delivery / inventory catalogue           *)
(***************************************************************************)
\* DeliveryAdvice; rule is the position of the producing rule in the catalogue
DeliveryAdvice(r, t, c, p, tv, d) ==
    [rule |-> r, title |-> t, category |-> c, priority |-> p,
     target_value |-> tv, detail |-> d]

\* dict.get(key, default)
Get(d, key, default) == IF key \in DOMAIN d THEN d[key] ELSE default

\* the empty dict {}
EmptyDict == [k \in {} |-> 0]

rule_dispatch_delay(d) ==
    LET rate     == Get(d, "dispatch_delay_rate", 0)
        platform == Get(d, "platform_dispatch_delay_rate", 90)
    IN IF rate <= platform THEN <<>>
       ELSE << DeliveryAdvice(1, "dispatch_delay_rate", "dispatch",
                  IF rate > 200 THEN "critical"
                  ELSE IF rate > 100 THEN "high" ELSE "medium",
                  "platform average or less", <<rate, platform>>) >>

rule_delivery_delay_rate(d) ==
    LET rate     == Get(d, "delivery_delay_rate", 0)
        platform == Get(d, "platform_delivery_delay_rate", 80)
    IN \* rate <= platform * 1.2
       IF 10 * rate <= 12 * platform THEN <<>>
       ELSE << DeliveryAdvice(2, "delivery_delay_rate", "delivery",
                  IF rate > 200 THEN "critical"
                  ELSE IF rate > 120 THEN "high" ELSE "medium",
                  "platform average or less", <<rate, platform>>) >>

rule_seasonal_risk(d) ==
    LET season_stats == Get(d, "season_stats", EmptyDict)
        rainy == Get(season_stats, "rainy", EmptyDict)
        dry   == Get(season_stats, "dry", EmptyDict)
    IN IF rainy = EmptyDict \/ dry = EmptyDict THEN <<>>
       ELSE LET rainy_rate == Get(rainy, "delivery_delay_rate", 0)
                dry_rate   == Get(dry, "delivery_delay_rate", 0)
                diff       == rainy_rate - dry_rate
            IN IF diff < 30 THEN <<>>
               ELSE << DeliveryAdvice(3, "rainy_season_risk", "seasonal",
                          IF diff > 100 THEN "high" ELSE "medium",
                          "rainy-dry gap within 3 points",
                          <<rainy_rate, dry_rate>>) >>

rule_transit_slow(d) ==
    LET seller_transit   == Get(d, "avg_transit_days", 0)
        platform_transit == Get(d, "platform_avg_transit_days", 90)
    IN \* seller_transit <= platform_transit * 1.3
       IF 10 * seller_transit <= 13 * platform_transit THEN <<>>
       ELSE << DeliveryAdvice(4, "transit_slow", "delivery", "medium",
                  "platform average", <<seller_transit, platform_transit>>) >>

rule_review_impact(d) ==
    LET on_time == Get(d, "review_on_time", <<>>)     \* None is the empty tuple
        delayed == Get(d, "review_delayed", <<>>)
    IN IF on_time = <<>> \/ delayed = <<>> THEN <<>>
       ELSE LET gap == on_time[1] - delayed[1]
            IN IF gap < 30 THEN <<>>
               ELSE << DeliveryAdvice(5, "dispatch_delay_lowers_review", "dispatch",
                          IF gap > 80 THEN "high" ELSE "medium",
                          "gap within 0.3 points", <<on_time[1], delayed[1]>>) >>

\* len(alerts[alerts["urgency"] == "critical"])
CriticalCount(alerts) ==
    LET IsCritical(a) == a.urgency = "critical"
    IN Len(SelectSeq(alerts, IsCritical))

rule_reorder_alert(inv) ==
    LET alerts == Get(inv, "reorder_alerts", <<>>)
    IN \* alerts is None or alerts.empty
       IF alerts = <<>> THEN <<>>
       ELSE LET critical_count == CriticalCount(alerts)
                total_count    == Len(alerts)
            IN << DeliveryAdvice(6, "reorder_alert", "inventory",
                     IF critical_count > 0 THEN "critical" ELSE "high",
                     "every product above its reorder point",
                     <<total_count, critical_count>>) >>

rule_inventory_utilization(inv) ==
    LET items == Get(inv, "inventory_items", <<>>)
    IN \* items is None or items.empty
       IF items = <<>> THEN <<>>
       ELSE LET total_on_hand  == SeqSum([i \in 1..Len(items) |-> items[i].quantity_on_hand])
                total_reserved == SeqSum([i \in 1..Len(items) |-> items[i].quantity_reserved])
            IN \* utilization = reserved / on_hand if on_hand > 0 else 0; < 0.5
               IF total_on_hand <= 0 \/ 2 * total_reserved < total_on_hand
               THEN << DeliveryAdvice(7, "inventory_utilization", "inventory", "low",
                          "reservation rate 30-60%",
                          <<total_reserved, total_on_hand>>) >>
               ELSE <<>>

\* the catalogue with the inventory rules behind the delivery flag
generate_delivery_advice_one_flag(d, inv) ==
    sort_by_priority(
        IF Get(d, "has_data", FALSE)
        THEN rule_dispatch_delay(d) \o rule_delivery_delay_rate(d) \o
             rule_seasonal_risk(d) \o rule_transit_slow(d) \o rule_review_impact(d) \o
             rule_reorder_alert(inv) \o rule_inventory_utilization(inv)
        ELSE <<>>)

generate_delivery_advice(d, inv) ==
    sort_by_priority(
        (IF Get(d, "has_data", FALSE)
         THEN rule_dispatch_delay(d) \o rule_delivery_delay_rate(d) \o
              rule_seasonal_risk(d) \o rule_transit_slow(d) \o rule_review_impact(d)
         ELSE <<>>)
        \o
        (IF Get(inv, "has_data", FALSE)
         THEN rule_reorder_alert(inv) \o rule_inventory_utilization(inv)
         ELSE <<>>))

(***************************************************************************)
(* Inputs of the rule engines.  Every rule is a comparison of a field      *)
(* against fixed thresholds, so the value sets hold a value on each side   *)
(* of every threshold and the threshold itself where a rule decides on it. *)
(* Profile "thresholds" is a record with all its data present; profile     *)
(* "missing" leaves optional data at the SellerMetrics dataclass defaults. *)
(***************************************************************************)
\* largest number of rows of the reorder-alert table
MaxAlerts == 2

SeqsUpTo(S, n) == UNION {[1..k -> S] : k \in 0..n}

Profiles == {"thresholds", "missing"}

\* <<avg_review, low_review_pct>>
ReviewVals(p) ==
    IF p = "thresholds"
    THEN { <<300, 199>>, <<300, 200>>, <<350, 100>>, <<370, 100>>, <<400, 100>> }
    ELSE { <<0, 0>>, <<370, 100>> }
LateDeliveryVals(p) == IF p = "thresholds" THEN {100, 150, 200, 250} ELSE {0, 250}
DeliveryDaysVals(p) == IF p = "thresholds" THEN {180, 181, 201} ELSE {0, 201}
ProductVarietyVals(p) == IF p = "thresholds" THEN {9, 10} ELSE {1}
AvgPhotosVals(p) == IF p = "thresholds" THEN {19, 20} ELSE {0, 20}
AvgPriceVals(p) == IF p = "thresholds" THEN {29, 100, 101} ELSE {0, 29}
CancelRateVals(p) == IF p = "thresholds" THEN {20, 50, 51} ELSE {0, 51}
\* <<unique_customers, repeat_customer_rate>>
CustomerVals(p) ==
    IF p = "thresholds" THEN { <<10, 29>>, <<10, 30>> } ELSE { <<9, 0>>, <<10, 29>> }

\* customer_state_dist: rows (state, customers), most customers first, as
\* compute_seller_metrics builds it (groupby, nunique, sort descending)
StateDist(sp, rj) ==
    LET rows == (IF sp > 0 THEN << <<"SP", sp>> >> ELSE <<>>) \o
                (IF rj > 0 THEN << <<"RJ", rj>> >> ELSE <<>>)
        sorted == SortedDesc(rows)
    IN [i \in 1..Len(sorted) |-> [state |-> sorted[i][1], customers |-> sorted[i][2]]]

StateDistVals(p) ==
    IF p = "thresholds"
    THEN { StateDist(1, 1), StateDist(2, 1), StateDist(1, 2) }
    ELSE { <<>>, StateDist(2, 1) }

\* category_revenue["category"]
CategoryVals(p) ==
    IF p = "thresholds"
    THEN { <<"watches_gifts">>,
           [i \in 1..Len(CATEGORY_OPPORTUNITY) |-> CATEGORY_OPPORTUNITY[i][1]] }
    ELSE { <<>>, <<"watches_gifts">> }

\* review_keyword_analysis: results whose primary issue covers 10% / 20% of
\* the texts; the dataclass default {} and the result of an empty analysis
KeywordAnalysisVals(p) ==
    IF p = "thresholds"
    THEN { [issue_counts |-> << <<"delivery delay", 1>> >>,
            primary_issue |-> "delivery delay", analyzed_count |-> 10],
           [issue_counts |-> << <<"delivery delay", 1>> >>,
            primary_issue |-> "delivery delay", analyzed_count |-> 5] }
    ELSE { <<>>,
           [issue_counts |-> <<>>, primary_issue |-> None, analyzed_count |-> 0],
           [issue_counts |-> << <<"delivery delay", 1>> >>,
            primary_issue |-> "delivery delay", analyzed_count |-> 5] }

NoMetrics == [seller_id |-> None]

SeasonStats(r) == [delivery_delay_rate |-> r, avg_transit_days |-> 100]

SeasonVals ==
    { EmptyDict, [s \in {"rainy"} |-> SeasonStats(130)] } \cup
    { [s \in {"rainy", "dry"} |-> IF s = "rainy" THEN SeasonStats(r) ELSE SeasonStats(100)]
        : r \in {100, 129, 130, 250} }

\* <<review_on_time, review_delayed>>; None is the empty tuple
ReviewPairVals ==
    { << <<>>, <<>> >>, << <<450>>, <<>> >>, << <<450>>, <<430>> >>,
      << <<450>>, <<400>> >>, << <<450>>, <<300>> >> }

DeliveryVals ==
    { [has_data |-> FALSE, seller_orders |-> 0] } \cup
    { [has_data |-> TRUE, seller_orders |-> 1,
       dispatch_delay_rate |-> dr, platform_dispatch_delay_rate |-> 90,
       delivery_delay_rate |-> lr, platform_delivery_delay_rate |-> 80,
       season_stats |-> ss,
       avg_transit_days |-> tr, platform_avg_transit_days |-> 90,
       review_on_time |-> rp[1], review_delayed |-> rp[2]]
        : dr \in {90, 95, 150, 250}, lr \in {96, 100, 150, 250},
          ss \in SeasonVals, tr \in {117, 118}, rp \in ReviewPairVals }

InventoryVals ==
    { [has_data |-> FALSE, reorder_alerts |-> <<>>, inventory_items |-> <<>>] } \cup
    { [has_data |-> TRUE, reorder_alerts |-> al, inventory_items |-> it]
        : al \in SeqsUpTo({[urgency |-> "critical"], [urgency |-> "warning"]}, MaxAlerts),
          it \in { <<>>,
                   << [quantity_on_hand |-> 10, quantity_reserved |-> 4] >>,
                   << [quantity_on_hand |-> 10, quantity_reserved |-> 5] >> } }

(***************************************************************************)
(* engine/health_score.py                                                  *)
(*                                                                         *)
(* Scores are kept in tenths of a point, as round(x, 1) leaves them.       *)
(***************************************************************************)
\* round(num / den, 1 decimal of the unit): Python rounds halves to even
RoundHalfEven(num, den) ==
    LET q == num \div den
        r == num % den
    IN IF 2 * r < den THEN q
       ELSE IF 2 * r > den THEN q + 1
       ELSE IF q % 2 = 0 THEN q ELSE q + 1

Max(a, b) == IF a >= b THEN a ELSE b
Min(a, b) == IF a <= b THEN a ELSE b

\* _clamp without its two bounds applied
clamp_unbounded(val, lo, hi) == val

\* _clamp(val, lo, hi) = max(lo, min(hi, val))
clamp(val, lo, hi) == Max(lo, Min(hi, val))

RECURSIVE FloorLog2(_)
FloorLog2(n) == IF n < 2 THEN 0 ELSE 1 + FloorLog2(n \div 2)

RECURSIVE Pow2(_)
Pow2(k) == IF k = 0 THEN 1 ELSE 2 * Pow2(k - 1)

\* fractional bits of log2(y / 4096) for a mantissa 4096 <= y < 8192,
\* by repeated squaring
RECURSIVE Log2Frac(_, _)
Log2Frac(y, bits) ==
    IF bits = 0 THEN 0
    ELSE LET y2 == (y * y) \div 4096
         IN IF y2 >= 8192
            THEN Pow2(bits - 1) + Log2Frac(y2 \div 2, bits - 1)
            ELSE Log2Frac(y2, bits - 1)

\* log2(n) in units of 1/1024, n >= 1
Log2Fx(n) ==
    LET k == FloorLog2(n)
    IN k * 1024 + Log2Frac((n * 4096) \div Pow2(k), 10)

\* np.log1p(x) for x given in tenths, as log2((10 + x10) / 10) in 1/1024;
\* the scores only use ratios of two logarithms, so the base does not matter
log1p(x10) == Log2Fx(10 + x10) - Log2Fx(10)

\* CLUSTER_BENCHMARKS[0], the Top Performer profile
top ==
    [total_orders |-> 985,          \* 98.5, tenths
     total_revenue |-> 121610,      \* 12161.0, tenths of R$
     product_variety |-> 363,       \* 36.3, tenths
     unique_customers |-> 874]      \* 87.4, tenths

\* _clamp(np.log1p(v) / np.log1p(top) * 100), rounded to a tenth; v is whole
LogRatioScore(v, top10) ==
    IF v > 0
    THEN RoundHalfEven(1000 * clamp(log1p(10 * v), 0, log1p(top10)), log1p(top10))
    ELSE 0

\* review dimension; avg_review in hundredths, low_review_pct in thousandths.
\* (avg_review - 1) / 4 * 100 is avg_review/4 - 25 points, i.e. 5*(ar - 100)
\* twentieths of a point; the penalty low * 50 is low twentieths of a point.
ReviewScore(avg_review, low_review_pct) ==
    IF avg_review > 0
    THEN LET base_review == clamp(5 * (avg_review - 100), 0, 2000)
             penalty == low_review_pct
         IN RoundHalfEven(clamp(base_review - penalty, 0, 2000), 2)
    ELSE 0

\* delivery dimension with the no-data default removed
DeliveryScoreNoDefault(avg_delivery_days, late_delivery_pct) ==
    LET day_score == clamp(10 * (300 - avg_delivery_days), 0, 2300)
        late_score == clamp(1000 - late_delivery_pct, 0, 1000)
    IN RoundHalfEven(60 * day_score + 92 * late_score, 230)

\* delivery dimension; avg_delivery_days in tenths of a day, late_delivery_pct
\* in thousandths.  day_score = clamp((300 - dd) / 230 * 100) points is
\* clamp(10 * (300 - dd), 0, 2300) / 23 points; late_score is
\* clamp(1000 - late, 0, 1000) / 10 points;  0.6 * day + 0.4 * late in tenths
\* of a point is (60 * dayN + 92 * lateN) / 230.
DeliveryScore(avg_delivery_days, late_delivery_pct) ==
    IF avg_delivery_days > 0
    THEN LET day_score == clamp(10 * (300 - avg_delivery_days), 0, 2300)
             late_score == clamp(1000 - late_delivery_pct, 0, 1000)
         IN RoundHalfEven(60 * day_score + 92 * late_score, 230)
    ELSE 500

\* product dimension: _clamp(product_variety / 36.3 * 100)
ProductScore(product_variety) ==
    RoundHalfEven(clamp(10000 * product_variety, 0, 363 * 1000), 363)

DimensionNames == {"revenue", "orders", "review", "delivery", "product", "reach"}

\* compute_dimension_scores; k holds the eight keyword arguments
compute_dimension_scores(k) ==
    [revenue  |-> LogRatioScore(k.total_revenue, top.total_revenue),
     orders   |-> LogRatioScore(k.total_orders, top.total_orders),
     review   |-> ReviewScore(k.avg_review, k.low_review_pct),
     delivery |-> DeliveryScore(k.avg_delivery_days, k.late_delivery_pct),
     product  |-> ProductScore(k.product_variety),
     reach    |-> LogRatioScore(k.unique_customers, top.unique_customers)]

\* the weights with the review dimension counted against the seller
HEALTH_WEIGHTS_review_negated ==
    << <<"revenue", 20>>, <<"orders", 15>>, <<"review", 0 - 25>>,
       <<"delivery", 20>>, <<"product", 10>>, <<"reach", 10>> >>

\* config.HEALTH_WEIGHTS, in hundredths, in the dict's order
HEALTH_WEIGHTS ==
    << <<"revenue", 20>>, <<"orders", 15>>, <<"review", 25>>,
       <<"delivery", 20>>, <<"product", 10>>, <<"reach", 10>> >>

\* total += dimension_scores.get(dim, 0.0) * weight over HEALTH_WEIGHTS;
\* dimension scores in tenths times weights in hundredths: thousandths
RECURSIVE WeightedTotal(_, _)
WeightedTotal(scores, weights) ==
    IF weights = <<>> THEN 0
    ELSE Get(scores, Head(weights)[1], 0) * Head(weights)[2]
         + WeightedTotal(scores, Tail(weights))

\* compute_health_score: round(_clamp(total), 1), in tenths of a point
compute_health_score(scores) ==
    RoundHalfEven(clamp(WeightedTotal(scores, HEALTH_WEIGHTS), 0, 100000), 100)

\* compute_full_health returns (score, dims)
compute_full_health(k) ==
    LET dims == compute_dimension_scores(k)
    IN <<compute_health_score(dims), dims>>

(***************************************************************************)
(* data/preprocessor.py: compute_seller_metrics over the merged table      *)
(*                                                                         *)
(* A row of the merged table is one order item joined with its order, its  *)
(* review and its product.  Columns that may be NaN hold <<>> for NaN and  *)
(* <<v>> for a value.  Means are floats in the program; here they are      *)
(* truncated to the fixed-point unit of the field.                         *)
(***************************************************************************)
NaN == <<>>

\* series.dropna() on a sequence of optional values
RECURSIVE dropna(_)
dropna(s) ==
    IF s = <<>> THEN <<>>
    ELSE IF Head(s) = NaN THEN dropna(Tail(s))
    ELSE <<Head(s)[1]>> \o dropna(Tail(s))

\* series.nunique(): number of distinct values
nunique(s) == Cardinality({s[i] : i \in 1..Len(s)})

Column(rows, c) == [i \in 1..Len(rows) |-> rows[i][c]]

CountIf(s, Test(_)) == Len(SelectSeq(s, Test))

\* _compute_cancel_rate: statuses of the seller's distinct orders
compute_cancel_rate(seller_data) ==
    LET order_ids == {seller_data[i].order_id : i \in 1..Len(seller_data)}
        FirstRow(o) ==
            seller_data[CHOOSE i \in 1..Len(seller_data) :
                /\ seller_data[i].order_id = o
                /\ \A j \in 1..(i - 1) : seller_data[j].order_id # o]
        canceled == {o \in order_ids :
                        FirstRow(o).order_status \in {"canceled", "unavailable"}}
        total == Cardinality(order_ids)
    IN IF total = 0
       THEN [cancel_count |-> 0, cancel_rate |-> 0]
       ELSE [cancel_count |-> Cardinality(canceled),
             cancel_rate |-> (1000 * Cardinality(canceled)) \div total]

\* _compute_repeat_customers: customers with more than one distinct order
compute_repeat_customers(seller_data) ==
    LET custs == {seller_data[i].customer_unique_id : i \in 1..Len(seller_data)}
        OrdersOf(c) == {seller_data[i].order_id :
                           i \in {j \in 1..Len(seller_data) :
                                     seller_data[j].customer_unique_id = c}}
        repeats == {c \in custs : Cardinality(OrdersOf(c)) > 1}
        total_custs == Cardinality(custs)
    IN IF total_custs = 0
       THEN [repeat_customer_count |-> 0, repeat_customer_rate |-> 0]
       ELSE [repeat_customer_count |-> Cardinality(repeats),
             repeat_customer_rate |-> (1000 * Cardinality(repeats)) \div total_custs]

\* load_payments(): the rows of the payments table; order o1 was paid by card,
\* order o2 by a voucher and a card, order o3 has no payment row
load_payments ==
    << [order_id |-> "o1", payment_type |-> "credit_card"],
       [order_id |-> "o2", payment_type |-> "voucher"],
       [order_id |-> "o2", payment_type |-> "credit_card"] >>

\* _compute_payment_patterns: share of credit-card rows among the payment
\* rows of the seller's orders, in thousandths; the default 0.0 without rows
compute_payment_patterns(seller_data) ==
    LET seller_orders == {seller_data[i].order_id : i \in 1..Len(seller_data)}
        OfSeller(p) == p.order_id \in seller_orders
        seller_payments == SelectSeq(load_payments, OfSeller)
        IsCredit(p) == p.payment_type = "credit_card"
        credit == SelectSeq(seller_payments, IsCredit)
        total_pay == Len(seller_payments)
    IN IF seller_payments = <<>> THEN 0
       ELSE (1000 * Len(credit)) \div total_pay

\* months between the first and the last purchase, at least 1; the default 0
\* when no row has a purchase timestamp
active_months(seller_data) ==
    LET timestamps == dropna(Column(seller_data, "order_purchase_timestamp"))
        days == {timestamps[i] : i \in 1..Len(timestamps)}
        latest == CHOOSE d \in days : \A e \in days : e <= d
        earliest == CHOOSE d \in days : \A e \in days : d <= e
        span == latest - earliest
    IN IF timestamps = <<>> THEN 0
       ELSE IF span \div 30 > 1 THEN span \div 30 ELSE 1

\* the KPI block of compute_seller_metrics for a non-empty seller_data
SellerKpis(seller_id, seller_data) ==
    LET IsDelivered(r) == r.order_status = "delivered"
        delivered == SelectSeq(seller_data, IsDelivered)
        total_revenue == SeqSum(Column(seller_data, "price"))
        total_orders == nunique(Column(seller_data, "order_id"))
        total_items == Len(seller_data)
        reviews == dropna(Column(seller_data, "review_score"))
        IsLow(v) == v <= 2
        deliv == dropna(Column(delivered, "delivery_days"))
        late == Column(delivered, "is_late")
        IsTrue(b) == b
        photos == dropna(Column(seller_data, "product_photos_qty"))
        cancel == compute_cancel_rate(seller_data)
        repeat == compute_repeat_customers(seller_data)
    IN [seller_id |-> seller_id,
        active_months |-> active_months(seller_data),
        credit_card_pct |-> compute_payment_patterns(seller_data),
        total_revenue |-> total_revenue,
        total_orders |-> total_orders,
        unique_customers |-> nunique(Column(seller_data, "customer_unique_id")),
        avg_order_value |-> IF total_orders > 0 THEN total_revenue \div total_orders ELSE 0,
        total_items |-> total_items,
        items_per_order |-> IF total_orders > 0
                            THEN (100 * total_items) \div total_orders ELSE 0,
        product_variety |-> nunique(Column(seller_data, "product_id")),
        avg_price |-> total_revenue \div total_items,
        avg_review |-> IF reviews # <<>>
                       THEN (100 * SeqSum(reviews)) \div Len(reviews) ELSE 0,
        low_review_pct |-> IF reviews # <<>>
                           THEN (1000 * CountIf(reviews, IsLow)) \div Len(reviews) ELSE 0,
        avg_delivery_days |-> IF deliv # <<>> THEN SeqSum(deliv) \div Len(deliv) ELSE 0,
        late_delivery_pct |-> IF late # <<>>
                              THEN (1000 * CountIf(late, IsTrue)) \div Len(late) ELSE 0,
        avg_photos |-> IF photos # <<>>
                       THEN (10 * SeqSum(photos)) \div Len(photos) ELSE 0,
        cancel_count |-> cancel.cancel_count,
        cancel_rate |-> cancel.cancel_rate,
        repeat_customer_count |-> repeat.repeat_customer_count,
        repeat_customer_rate |-> repeat.repeat_customer_rate]

\* the aggregation run without the empty-table check: every KPI falls back
\* to its zero default
compute_seller_metrics_zero_filled(merged_table, seller_id) ==
    LET IsSeller(r) == r.seller_id = seller_id
        seller_data == SelectSeq(merged_table, IsSeller)
    IN IF seller_data = <<>>
       THEN [seller_id |-> seller_id, active_months |-> 0, credit_card_pct |-> 0,
             total_revenue |-> 0, total_orders |-> 0,
             unique_customers |-> 0, avg_order_value |-> 0, total_items |-> 0,
             items_per_order |-> 0, product_variety |-> 0, avg_price |-> 0,
             avg_review |-> 0, low_review_pct |-> 0, avg_delivery_days |-> 0,
             late_delivery_pct |-> 0, avg_photos |-> 0, cancel_count |-> 0,
             cancel_rate |-> 0, repeat_customer_count |-> 0,
             repeat_customer_rate |-> 0]
       ELSE SellerKpis(seller_id, seller_data)

\* compute_seller_metrics(seller_id): None when the seller has no row
compute_seller_metrics(merged_table, seller_id) ==
    LET IsSeller(r) == r.seller_id = seller_id
        seller_data == SelectSeq(merged_table, IsSeller)
    IN IF seller_data = <<>>
       THEN NoMetrics
       ELSE SellerKpis(seller_id, seller_data)

(***************************************************************************)
(* Inputs of the metrics aggregator and of the health scorer               *)
(***************************************************************************)
MaxRows == 2

\* order-level columns of a row: what the orders and reviews tables say
\* about one order.  delivery_days is NaN when either timestamp is missing,
\* and is_late is then False (a comparison with NaT).  The purchase
\* timestamp is a day number, NaN for NaT: an item whose order is not in the
\* orders table, or a timestamp that pd.to_datetime coerced.
OrderProfiles ==
    { [order_status |-> "delivered", delivery_days |-> <<70>>,  is_late |-> FALSE,
       review_score |-> <<5>>, order_purchase_timestamp |-> <<0>>],
      [order_status |-> "delivered", delivery_days |-> <<100>>, is_late |-> FALSE,
       review_score |-> NaN, order_purchase_timestamp |-> <<45>>],
      [order_status |-> "delivered", delivery_days |-> <<300>>, is_late |-> TRUE,
       review_score |-> <<2>>, order_purchase_timestamp |-> <<100>>],
      [order_status |-> "delivered", delivery_days |-> NaN,     is_late |-> FALSE,
       review_score |-> <<5>>, order_purchase_timestamp |-> NaN],
      [order_status |-> "canceled",  delivery_days |-> NaN,     is_late |-> FALSE,
       review_score |-> <<2>>, order_purchase_timestamp |-> <<10>>] }

\* product-level columns
ProductPhotos(product_id) == IF product_id = "p1" THEN <<1>> ELSE NaN

MergedRow(seller_id, order_id, customer_unique_id, product_id, o) ==
    [seller_id |-> seller_id, order_id |-> order_id,
     customer_unique_id |-> customer_unique_id, product_id |-> product_id,
     price |-> 50, product_photos_qty |-> ProductPhotos(product_id),
     order_status |-> o.order_status, delivery_days |-> o.delivery_days,
     is_late |-> o.is_late, review_score |-> o.review_score,
     order_purchase_timestamp |-> o.order_purchase_timestamp]

\* rows of seller s1 (orders o1 and o2) and one row of another seller
RowVals ==
    { MergedRow("s1", "o1", "c1", p, o) : p \in {"p1", "p2"}, o \in OrderProfiles }
    \cup { MergedRow("s1", "o2", c, p, o) :
              c \in {"c1", "c2"}, p \in {"p1", "p2"}, o \in OrderProfiles }
    \cup { MergedRow("s2", "o3", "c3", "p1",
              [order_status |-> "delivered", delivery_days |-> <<100>>,
               is_late |-> FALSE, review_score |-> <<5>>,
               order_purchase_timestamp |-> <<45>>]) }

\* the left joins of build_merged_table repeat an order's columns on each
\* of its items
OrderColumnsAgree(t) ==
    \A i, j \in 1..Len(t) :
        t[i].order_id = t[j].order_id =>
            /\ t[i].customer_unique_id = t[j].customer_unique_id
            /\ t[i].order_status = t[j].order_status
            /\ t[i].delivery_days = t[j].delivery_days
            /\ t[i].is_late = t[j].is_late
            /\ t[i].review_score = t[j].review_score
            /\ t[i].order_purchase_timestamp = t[j].order_purchase_timestamp

MergedTables == { t \in SeqsUpTo(RowVals, MaxRows) : OrderColumnsAgree(t) }

\* sellers of the sellers table; s3 has sold nothing
SellerIds == {"s1", "s2", "s3"}

\* <<avg_review, low_review_pct>>
KpiReviewVals == { <<0, 0>>, <<100, 1000>>, <<350, 200>>, <<500, 0>>, <<600, 0>> }

KpiVals ==
    [total_revenue : {0 - 100, 0, 50, 50000},
     total_orders : {0 - 1, 0, 1, 500},
     review : KpiReviewVals,
     avg_delivery_days : {0, 70, 100, 300, 450},
     late_delivery_pct : {0, 100, 1000},
     product_variety : {0, 1, 36, 50},
     unique_customers : {0 - 1, 0, 1, 300}]

ScoreSteps == 3

\* dimension scores on an even grid over 0..100 points
ScoreGrid == { (1000 * i) \div ScoreSteps : i \in 0..ScoreSteps }

(***************************************************************************)
(* data/preprocessor.py: compute_percentile_ranks over the seller cluster  *)
(* table (one row per seller, ten metric columns)                          *)
(***************************************************************************)
\* columns where a higher value is better, in the order of the loop
higher_better ==
    <<"total_orders", "total_revenue", "avg_price", "product_variety",
      "avg_review", "unique_customers", "items_per_order">>

\* columns where a lower value is better
lower_better == <<"low_review_pct", "avg_delivery_days", "late_delivery_pct">>

Range(s) == {s[i] : i \in 1..Len(s)}

\* (cluster_df[col] >= val).mean() * 100, rounded to one decimal (tenths)
rank_higher_better(df, col, val) ==
    RoundHalfEven(1000 * Cardinality({i \in 1..Len(df) : df[i][col] >= val}), Len(df))

\* the lower-is-better rank computed with the same comparison as the others
rank_lower_better_not_inverted(df, col, val) ==
    RoundHalfEven(1000 * Cardinality({i \in 1..Len(df) : df[i][col] >= val}), Len(df))

\* (cluster_df[col] <= val).mean() * 100, rounded to one decimal (tenths)
rank_lower_better(df, col, val) ==
    RoundHalfEven(1000 * Cardinality({i \in 1..Len(df) : df[i][col] <= val}), Len(df))

\* compute_percentile_ranks(seller_id): {} when the seller is not in the table
compute_percentile_ranks(df, seller_id) ==
    LET IsSeller(r) == r.seller_id = seller_id
        seller_rows == SelectSeq(df, IsSeller)
    IN IF seller_rows = <<>>
       THEN EmptyDict
       ELSE LET seller_row == seller_rows[1]
            IN [col \in Range(higher_better) \cup Range(lower_better) |->
                   IF col \in Range(higher_better)
                   THEN rank_higher_better(df, col, seller_row[col])
                   ELSE rank_lower_better(df, col, seller_row[col])]

MaxSellers == 3

ClusterSellerIds == <<"s1", "s2", "s3", "s4", "s5", "s6">>

\* metric values of one seller in the cluster table
ClusterProfiles ==
    { [total_orders |-> 1, total_revenue |-> 50, avg_price |-> 50,
       product_variety |-> 1, avg_review |-> 500, unique_customers |-> 1,
       items_per_order |-> 100, low_review_pct |-> 0, avg_delivery_days |-> 70,
       late_delivery_pct |-> 0],
      [total_orders |-> 3, total_revenue |-> 300, avg_price |-> 100,
       product_variety |-> 2, avg_review |-> 350, unique_customers |-> 3,
       items_per_order |-> 100, low_review_pct |-> 200, avg_delivery_days |-> 100,
       late_delivery_pct |-> 100],
      [total_orders |-> 3, total_revenue |-> 120, avg_price |-> 40,
       product_variety |-> 3, avg_review |-> 200, unique_customers |-> 2,
       items_per_order |-> 150, low_review_pct |-> 1000, avg_delivery_days |-> 300,
       late_delivery_pct |-> 1000],
      [total_orders |-> 2, total_revenue |-> 300, avg_price |-> 150,
       product_variety |-> 1, avg_review |-> 500, unique_customers |-> 2,
       items_per_order |-> 100, low_review_pct |-> 0, avg_delivery_days |-> 100,
       late_delivery_pct |-> 0] }

ClusterRow(seller_id, p) ==
    [seller_id |-> seller_id, total_orders |-> p.total_orders,
     total_revenue |-> p.total_revenue, avg_price |-> p.avg_price,
     product_variety |-> p.product_variety, avg_review |-> p.avg_review,
     unique_customers |-> p.unique_customers, items_per_order |-> p.items_per_order,
     low_review_pct |-> p.low_review_pct, avg_delivery_days |-> p.avg_delivery_days,
     late_delivery_pct |-> p.late_delivery_pct]

\* cluster tables of up to MaxSellers sellers, one row per seller
ClusterTables ==
    UNION { { [i \in 1..n |-> ClusterRow(ClusterSellerIds[i], ps[i])] :
                ps \in [1..n -> ClusterProfiles] } : n \in 0..MaxSellers }

(***************************************************************************)
(* data/logistics_analyzer.py: compute_seller_logistics                    *)
(*                                                                         *)
(* Distances are whole km per pair of points and hundredths of a km once   *)
(* averaged; the estimated freight is in millionths of R$ and the          *)
(* estimated days in ten-millionths of a day.                              *)
(***************************************************************************)
StateCodes == <<"SP", "RJ", "BA", "AM", "RS", "MG", "PR", "PE", "PA", "GO">>

\* config.STATE_CENTER_COORDS, <<lat, lng>> in hundredths of a degree: the
\* points used for sellers, customers and warehouses
STATE_CENTER_COORDS ==
    [s \in Range(StateCodes) |->
        CASE s = "SP" -> <<-2219, -4879>>
          [] s = "RJ" -> <<-2225, -4266>>
          [] s = "BA" -> <<-1258, -4170>>
          [] s = "AM" -> <<-347, -6222>>
          [] s = "RS" -> <<-2975, -5325>>
          [] s = "MG" -> <<-1851, -4456>>
          [] s = "PR" -> <<-2489, -5155>>
          [] s = "PE" -> <<-838, -3786>>
          [] s = "PA" -> <<-379, -5248>>
          [] s = "GO" -> <<-1583, -4984>>]

\* R * 2 * arcsin(sqrt(a)) of _haversine, tabulated in whole km for the
\* points of STATE_CENTER_COORDS, in the order of StateCodes
HaversineKm ==
    << <<0, 631, 1306, 2536, 951, 602, 411, 1930, 2084, 716>>,
       <<631, 0, 1080, 2968, 1346, 461, 952, 1625, 2309, 1038>>,
       <<1306, 1080, 0, 2474, 2250, 727, 1716, 628, 1536, 949>>,
       <<2536, 2968, 2474, 0, 3071, 2547, 2641, 2748, 1081, 1929>>,
       <<951, 1346, 2250, 3071, 0, 1528, 566, 2867, 2888, 1587>>,
       <<602, 461, 727, 2547, 1528, 0, 1012, 1339, 1850, 635>>,
       <<411, 952, 1716, 2641, 566, 1012, 0, 2341, 2348, 1023>>,
       <<1930, 1625, 628, 2748, 2867, 1339, 2341, 0, 1695, 1543>>,
       <<2084, 2309, 1536, 1081, 2888, 1850, 2348, 1695, 0, 1370>>,
       <<716, 1038, 949, 1929, 1587, 635, 1023, 1543, 1370, 0>> >>

PointIndex(lat, lng) ==
    CHOOSE i \in 1..Len(StateCodes) : STATE_CENTER_COORDS[StateCodes[i]] = <<lat, lng>>

\* _haversine(lat1, lon1, lat2, lon2), km
haversine(lat1, lon1, lat2, lon2) ==
    HaversineKm[PointIndex(lat1, lon1)][PointIndex(lat2, lon2)]

\* load_geolocation(): one <<lat, lng>> per zip code prefix; the zip codes
\* are named after the state whose centre they map to, and zip "00000" has
\* no row
geo == [z \in {"SP", "RJ", "BA", "AM", "RS"} |-> STATE_CENTER_COORDS[z]]

\* the distance from each customer row to one warehouse
DistsTo(cust, w) ==
    [i \in 1..Len(cust) |-> haversine(cust[i].lat, cust[i].lng, w.lat, w.lng)]

\* wh.sort_values("customer_to_wh_km"): ascending, ties in table order
RECURSIVE InsertByCustomerKm(_, _)
InsertByCustomerKm(w, s) ==
    IF s = <<>> THEN <<w>>
    ELSE IF w.customer_to_wh_km < Head(s).customer_to_wh_km
         THEN <<w>> \o s
         ELSE <<Head(s)>> \o InsertByCustomerKm(w, Tail(s))

RECURSIVE SortByCustomerKm(_)
SortByCustomerKm(s) ==
    IF s = <<>> THEN <<>>
    ELSE InsertByCustomerKm(s[Len(s)], SortByCustomerKm(SubSeq(s, 1, Len(s) - 1)))

SetMin(S) == CHOOSE x \in S : \A y \in S : x <= y

\* the mean taken over each customer's farthest warehouse instead
AvgMaxDistance(cust, whs) ==
    LET farthest == [i \in 1..Len(cust) |->
                       0 - SetMin({0 - DistsTo(cust, whs[j])[i] : j \in 1..Len(whs)})]
    IN (100 * SeqSum(farthest)) \div Len(cust)

\* np.mean(dists.min(axis=1)) over the given warehouses, hundredths of a km
AvgMinDistance(cust, whs) ==
    LET nearest == [i \in 1..Len(cust) |->
                      SetMin({DistsTo(cust, whs[j])[i] : j \in 1..Len(whs)})]
    IN (100 * SeqSum(nearest)) \div Len(cust)

\* the three-warehouse scenario taking the three farthest warehouses
top3_farthest(wh) == SubSeq(wh, Len(wh) - 2, Len(wh))

\* wh.head(3)
top3(wh) == Prefix(wh, 3)

\* one row of the simulation
Scenario(name, avg_distance, est_freight, est_days) ==
    [scenario |-> name, avg_distance |-> avg_distance,
     est_freight |-> est_freight, est_days |-> est_days]

\* the two regressions with their coefficients exchanged
WarehouseScenarioSwapped(name, avg) ==
    Scenario(name, avg, 606 * avg + 86400000, 104 * avg + 13700000)

\* freight_per_km * avg + freight_intercept, days_per_km * avg + days_intercept
WarehouseScenario(name, avg) ==
    Scenario(name, avg, 104 * avg + 13700000, 606 * avg + 86400000)

\* the result dict before anything is filled in
EmptyLogistics ==
    [seller_geo |-> <<>>, avg_distance |-> 0, avg_freight |-> 0,
     avg_delivery_days |-> 0, late_pct |-> 0, best_warehouse |-> EmptyDict,
     simulation |-> <<>>]

\* compute_seller_logistics(seller_id); sellers_zip is the seller's zip code
\* prefix in the sellers table (<<>> when the seller has no row there)
compute_seller_logistics(merged_table, sellers_zip, recs, seller_id) ==
    LET IsDelivered(r) == r.seller_id = seller_id /\ r.order_status = "delivered"
        seller_data == SelectSeq(merged_table, IsDelivered)
        HasGeo(r) == r.customer_zip_code_prefix \in DOMAIN geo
        matched == SelectSeq(seller_data, HasGeo)
    IN IF sellers_zip = <<>> THEN EmptyLogistics
       ELSE IF sellers_zip[1] \notin DOMAIN geo THEN EmptyLogistics
       ELSE LET slat == geo[sellers_zip[1]][1]
                slng == geo[sellers_zip[1]][2]
                located == [EmptyLogistics EXCEPT !.seller_geo = <<slat, slng>>]
            IN IF seller_data = <<>> THEN located
               ELSE IF matched = <<>> THEN located
               ELSE
    LET cust == [i \in 1..Len(matched) |->
                    [lat |-> geo[matched[i].customer_zip_code_prefix][1],
                     lng |-> geo[matched[i].customer_zip_code_prefix][2],
                     freight_value |-> matched[i].freight_value,
                     delivery_days |-> matched[i].delivery_days,
                     is_late |-> matched[i].is_late]]
        n == Len(cust)
        distance_km == [i \in 1..n |-> haversine(slat, slng, cust[i].lat, cust[i].lng)]
        avg_distance == (100 * SeqSum(distance_km)) \div n
        avg_freight == (1000000 * SeqSum(Column(cust, "freight_value"))) \div n
        dd == dropna(Column(cust, "delivery_days"))
        avg_delivery_days == IF Len(dd) > 0 THEN (1000000 * SeqSum(dd)) \div Len(dd) ELSE 0
        IsTrue(b) == b
        late_pct == (1000 * CountIf(Column(cust, "is_late"), IsTrue)) \div n
        wh == SortByCustomerKm(
                 [j \in 1..Len(recs) |->
                     [warehouse_id |-> recs[j].warehouse_id, state |-> recs[j].state,
                      lat |-> recs[j].lat, lng |-> recs[j].lng,
                      seller_to_wh_km |-> haversine(slat, slng, recs[j].lat, recs[j].lng),
                      customer_to_wh_km |->
                          (100 * SeqSum(DistsTo(cust, recs[j]))) \div n]])
        best == wh[1]
        avg_1 == (100 * SeqSum(DistsTo(cust, best))) \div n
        avg_3 == AvgMinDistance(cust, top3(wh))
        avg_5 == AvgMinDistance(cust, wh)
    IN [seller_geo |-> <<slat, slng>>,
        avg_distance |-> avg_distance,
        avg_freight |-> avg_freight,
        avg_delivery_days |-> avg_delivery_days,
        late_pct |-> late_pct,
        best_warehouse |->
            [id |-> best.warehouse_id, state |-> best.state,
             seller_to_wh_km |-> best.seller_to_wh_km,
             customer_to_wh_km |-> best.customer_to_wh_km,
             reduction_km |-> avg_distance - best.customer_to_wh_km],
        simulation |->
            << Scenario("current", avg_distance, avg_freight, avg_delivery_days),
               WarehouseScenario("nearest warehouse", avg_1),
               WarehouseScenario("3 warehouses", avg_3),
               WarehouseScenario("5 warehouses", avg_5) >>]

MaxDelivered == 2

\* order-level columns of the rows the logistics analysis reads
ShipmentProfiles ==
    { [order_status |-> "delivered", freight_value |-> 15, delivery_days |-> <<80>>,
       is_late |-> FALSE],
      [order_status |-> "delivered", freight_value |-> 30, delivery_days |-> <<200>>,
       is_late |-> TRUE],
      [order_status |-> "canceled", freight_value |-> 15, delivery_days |-> NaN,
       is_late |-> FALSE] }

ShipmentRow(zip, p) ==
    [seller_id |-> "s1", customer_zip_code_prefix |-> zip,
     order_status |-> p.order_status, freight_value |-> p.freight_value,
     delivery_days |-> p.delivery_days, is_late |-> p.is_late]

\* merged tables holding the seller's rows, with the columns read here
ShipmentTables ==
    SeqsUpTo({ShipmentRow(z, p) :
                 z \in {"SP", "RJ", "BA", "AM", "RS", "00000"}, p \in ShipmentProfiles},
             MaxDelivered)

\* the seller's zip code prefix in the sellers table
SellerZipVals == { <<>>, <<"SP">>, <<"AM">>, <<"00000">> }

Warehouse(id, state) ==
    [warehouse_id |-> id, state |-> state,
     lat |-> STATE_CENTER_COORDS[state][1], lng |-> STATE_CENTER_COORDS[state][2]]

\* load_warehouse_recommendations(): five recommended warehouses
WarehouseLayouts ==
    { << Warehouse(1, "SP"), Warehouse(2, "RJ"), Warehouse(3, "BA"),
         Warehouse(4, "AM"), Warehouse(5, "RS") >>,
      << Warehouse(1, "PA"), Warehouse(2, "PE"), Warehouse(3, "GO"),
         Warehouse(4, "MG"), Warehouse(5, "PR") >> }

(***************************************************************************)
(* data/market_analyzer.py                                                 *)
(*                                                                         *)
(* Ratios and normalised scores are floats in the program; here they are   *)
(* exact fractions <<numerator, denominator>> with a positive denominator. *)
(***************************************************************************)
RECURSIVE Gcd(_, _)
Gcd(a, b) == IF b = 0 THEN a ELSE Gcd(b, a % b)

Abs(x) == IF x < 0 THEN 0 - x ELSE x

\* the fraction n / d in lowest terms, d > 0
Frac(n, d) ==
    LET g == Gcd(Abs(n), d)
    IN IF n = 0 THEN <<0, 1>> ELSE <<n \div g, d \div g>>

FLess(a, b) == a[1] * b[2] < b[1] * a[2]
FLeq(a, b) == a[1] * b[2] <= b[1] * a[2]
FAdd(a, b) == Frac(a[1] * b[2] + b[1] * a[2], a[2] * b[2])
FSub(a, b) == Frac(a[1] * b[2] - b[1] * a[2], a[2] * b[2])
FMul(a, b) == Frac(a[1] * b[1], a[2] * b[2])
\* a / b for b > 0
FDiv(a, b) == Frac(a[1] * b[2], a[2] * b[1])

\* series.min(), series.max() over a non-empty sequence of fractions
FMin(s) == s[CHOOSE i \in 1..Len(s) : \A j \in 1..Len(s) : FLeq(s[i], s[j])]
FMax(s) == s[CHOOSE i \in 1..Len(s) : \A j \in 1..Len(s) : FLeq(s[j], s[i])]

\* the states of the model, in the lexicographic order pandas gives group
\* keys and outer-merge keys
StateOrder == <<"AM", "BA", "MG", "PR", "RJ", "RS", "SP">>

\* the members of a set of states as a sequence in StateOrder
RECURSIVE InStateOrder(_, _)
InStateOrder(S, k) ==
    IF k > Len(StateOrder) THEN <<>>
    ELSE (IF StateOrder[k] \in S THEN <<StateOrder[k]>> ELSE <<>>)
         \o InStateOrder(S, k + 1)

\* r["customers"] / r["sellers"] if r["sellers"] > 0 else r["customers"] * 10
supply_demand_ratio(customers, sellers) ==
    IF sellers > 0 THEN Frac(customers, sellers) ELSE Frac(customers * 10, 1)

\* the ladder with the two upper rungs tested in the other order
grade_rungs_swapped(ratio, sellers) ==
    IF sellers = 0 THEN "market entry possible"
    ELSE IF FLeq(<<100, 1>>, ratio) THEN "high opportunity"
    ELSE IF FLeq(<<200, 1>>, ratio) THEN "urgent undersupply"
    ELSE IF FLeq(<<50, 1>>, ratio) THEN "medium opportunity"
    ELSE "saturated"

\* grade(ratio, sellers); the labels are the English of the Korean strings
grade(ratio, sellers) ==
    IF sellers = 0 THEN "market entry possible"
    ELSE IF FLeq(<<200, 1>>, ratio) THEN "urgent undersupply"
    ELSE IF FLeq(<<100, 1>>, ratio) THEN "high opportunity"
    ELSE IF FLeq(<<50, 1>>, ratio) THEN "medium opportunity"
    ELSE "saturated"

\* df.sort_values("ratio", ascending=False): descending, ties in row order
RECURSIVE InsertByRatioDesc(_, _)
InsertByRatioDesc(r, s) ==
    IF s = <<>> THEN <<r>>
    ELSE IF FLess(Head(s).ratio, r.ratio)
         THEN <<r>> \o s
         ELSE <<Head(s)>> \o InsertByRatioDesc(r, Tail(s))

RECURSIVE SortByRatioDesc(_)
SortByRatioDesc(s) ==
    IF s = <<>> THEN <<>>
    ELSE InsertByRatioDesc(s[Len(s)], SortByRatioDesc(SubSeq(s, 1, Len(s) - 1)))

\* compute_regional_supply_demand; cust_by_state and seller_by_state are the
\* two groupby(...).nunique() tables, state -> count
compute_regional_supply_demand(cust_by_state, seller_by_state) ==
    LET states == InStateOrder(DOMAIN cust_by_state \cup DOMAIN seller_by_state, 1)
        Row(st) ==
            LET customers == Get(cust_by_state, st, 0)
                sellers == Get(seller_by_state, st, 0)
                ratio == supply_demand_ratio(customers, sellers)
            IN [state |-> st, customers |-> customers, sellers |-> sellers,
                ratio |-> ratio, opportunity_grade |-> grade(ratio, sellers)]
    IN SortByRatioDesc([i \in 1..Len(states) |-> Row(states[i])])

\* distinct customers and sellers of a state
CustomerCounts == {49, 50, 99, 100, 199, 200, 399, 400}
SellerCounts == {1, 2}

\* groupby tables over a set of states: a state without customers (sellers)
\* has no row in the customer (seller) table
GroupCounts(S, counts) == UNION { [T -> counts] : T \in SUBSET S }

\* min-max scaling without the constant-series case: a constant series
\* scales to 0
normalize_no_flat_case(series) ==
    LET mn == FMin(series)
        mx == FMax(series)
    IN IF mx = mn
       THEN [i \in 1..Len(series) |-> <<0, 1>>]
       ELSE [i \in 1..Len(series) |->
                FMul(FDiv(FSub(series[i], mn), FSub(mx, mn)), <<100, 1>>)]

\* compute_seller_growth_regions._normalize over a non-empty series
normalize(series) ==
    LET mn == FMin(series)
        mx == FMax(series)
    IN IF mx = mn
       THEN [i \in 1..Len(series) |-> <<50, 1>>]
       ELSE [i \in 1..Len(series) |->
                FMul(FDiv(FSub(series[i], mn), FSub(mx, mn)), <<100, 1>>)]

\* region_agg.sort_values("opportunity_score", ascending=False), ties in
\* row order
RECURSIVE InsertByScoreDesc(_, _)
InsertByScoreDesc(r, s) ==
    IF s = <<>> THEN <<r>>
    ELSE IF Head(s).opportunity_score < r.opportunity_score
         THEN <<r>> \o s
         ELSE <<Head(s)>> \o InsertByScoreDesc(r, Tail(s))

RECURSIVE SortByScoreDesc(_)
SortByScoreDesc(s) ==
    IF s = <<>> THEN <<>>
    ELSE InsertByScoreDesc(s[Len(s)], SortByScoreDesc(SubSeq(s, 1, Len(s) - 1)))

\* the row of regional_sd for a state (<<>> when the left merge finds none)
SupplyDemandRow(sd, st) ==
    LET IsState(r) == r.state = st
    IN SelectSeq(sd, IsState)

\* the reason strings of one recommended region
GrowthReasons(r) ==
    LET reasons ==
            (IF r.ratio # NaN /\ FLeq(<<100, 1>>, r.ratio[1])
             THEN <<"customer/seller ratio (undersupply)">> ELSE <<>>)
            \o (IF FLeq(<<30, 1>>, r.orders_per_seller)
                THEN <<"orders per seller (high demand)">> ELSE <<>>)
            \o (IF r.market_revenue >= 50000 THEN <<"market size">> ELSE <<>>)
    IN IF reasons = <<>> THEN <<"growth potential">> ELSE reasons

\* the recommendation list without the home-state filter
exclude_nothing(region_agg, seller_state) == region_agg

\* region_agg[region_agg["state"] != seller_state]
exclude_home_state(region_agg, seller_state) ==
    LET NotHome(r) == r.state # seller_state
    IN SelectSeq(region_agg, NotHome)

\* compute_seller_growth_regions(seller_id, seller_categories, seller_state);
\* sd is compute_regional_supply_demand() and cat_state is
\* compute_category_state_matrix()
compute_seller_growth_regions(sd, cat_state, seller_categories, seller_state) ==
    LET InCategories(r) == r.category \in Range(seller_categories)
        cat_filtered == SelectSeq(cat_state, InCategories)
        states == InStateOrder({cat_filtered[i].state : i \in 1..Len(cat_filtered)}, 1)
        Agg(st) ==
            LET OfState(r) == r.state = st
                rows == SelectSeq(cat_filtered, OfState)
                market_orders == SeqSum(Column(rows, "orders"))
                competitors == SeqSum(Column(rows, "sellers"))
                joined == SupplyDemandRow(sd, st)
            IN [state |-> st,
                market_revenue |-> SeqSum(Column(rows, "revenue")),
                market_orders |-> market_orders,
                competitors |-> competitors,
                avg_price |-> Frac(SeqSum(Column(rows, "avg_price")), Len(rows)),
                customers |-> IF joined = <<>> THEN NaN ELSE <<joined[1].customers>>,
                ratio |-> IF joined = <<>> THEN NaN ELSE <<joined[1].ratio>>,
                opportunity_grade |->
                    IF joined = <<>> THEN NaN ELSE <<joined[1].opportunity_grade>>,
                orders_per_seller |->
                    IF competitors > 0 THEN Frac(market_orders, competitors)
                    ELSE Frac(market_orders, 1)]
        region_agg == [i \in 1..Len(states) |-> Agg(states[i])]
        n == Len(region_agg)
        score_ratio ==
            normalize([i \in 1..n |->
                IF region_agg[i].ratio = NaN THEN <<0, 1>> ELSE region_agg[i].ratio[1]])
        score_revenue ==
            normalize([i \in 1..n |-> Frac(region_agg[i].market_revenue, 1)])
        score_ops == normalize([i \in 1..n |-> region_agg[i].orders_per_seller])
        Score(i) ==
            LET total == FAdd(FMul(<<2, 5>>, score_ratio[i]),
                              FAdd(FMul(<<3, 10>>, score_revenue[i]),
                                   FMul(<<3, 10>>, score_ops[i])))
            IN RoundHalfEven(10 * total[1], total[2])
        scored == [i \in 1..n |->
                     [state |-> region_agg[i].state,
                      opportunity_score |-> Score(i),
                      opportunity_grade |-> region_agg[i].opportunity_grade,
                      market_revenue |-> region_agg[i].market_revenue,
                      market_orders |-> region_agg[i].market_orders,
                      competitors |-> region_agg[i].competitors,
                      orders_per_seller |-> region_agg[i].orders_per_seller,
                      avg_price |-> region_agg[i].avg_price,
                      customers |-> region_agg[i].customers,
                      reason |-> GrowthReasons(region_agg[i])]]
    IN IF seller_categories = <<>> THEN <<>>
       ELSE IF cat_filtered = <<>> THEN <<>>
       ELSE Prefix(SortByScoreDesc(exclude_home_state(scored, seller_state)), 5)

\* what one state contributes to the two tables: its distinct customers and
\* sellers, and its row of the category-state matrix for the category "toys"
\* (<<>> when no seller of the state has a delivered toys order)
MarketProfiles ==
    { [customers |-> 100, sellers |-> 1,
       toys |-> <<[revenue |-> 60000, orders |-> 30, sellers |-> 1, avg_price |-> 100]>>],
      [customers |-> 400, sellers |-> 2,
       toys |-> <<[revenue |-> 60000, orders |-> 30, sellers |-> 2, avg_price |-> 80]>>],
      [customers |-> 50, sellers |-> 2,
       toys |-> <<[revenue |-> 1000, orders |-> 3, sellers |-> 1, avg_price |-> 40]>>],
      [customers |-> 50, sellers |-> 1, toys |-> <<>>] }

\* the profiles each state may take
MarketProfilesOf(st) ==
    IF st \in {"RJ", "RS"}
    THEN {p \in MarketProfiles : p.toys # <<>> /\ p.sellers = p.toys[1].sellers}
    ELSE IF st = "SP"
    THEN {p \in MarketProfiles : p.customers = 400 \/ p.toys = <<>>}
    ELSE MarketProfiles

Markets == { f \in [Range(StateOrder) -> MarketProfiles] :
                \A st \in Range(StateOrder) : f[st] \in MarketProfilesOf(st) }

\* compute_category_state_matrix(): the toys rows of the states that have
\* one, and one row of category "auto" in SP
CategoryStateMatrix(f) ==
    LET withToys == InStateOrder({st \in Range(StateOrder) : f[st].toys # <<>>}, 1)
    IN [i \in 1..Len(withToys) |->
           [category |-> "toys", state |-> withToys[i],
            revenue |-> f[withToys[i]].toys[1].revenue,
            orders |-> f[withToys[i]].toys[1].orders,
            sellers |-> f[withToys[i]].toys[1].sellers,
            avg_price |-> f[withToys[i]].toys[1].avg_price]]
       \o << [category |-> "auto", state |-> "SP", revenue |-> 500, orders |-> 5,
              sellers |-> 1, avg_price |-> 100] >>

SellerCategoryVals == { <<>>, <<"toys">>, <<"toys", "auto">>, <<"garden">> }

MaxSeries == 3

\* series handed to _normalize
SeriesVals ==
    UNION { [1..k -> {Frac(0, 1), Frac(25, 1), Frac(49, 2), Frac(60000, 1)}] :
               k \in 1..MaxSeries }

(***************************************************************************)
(* data/inventory_loader.py and the two roadmap generators                 *)
(*                                                                         *)
(* A table is a sequence of rows.  A dict-or-None value is the empty       *)
(* tuple for None and a one-element tuple for a dict.  A warehouse id      *)
(* cell left empty in the CSV is the float nan pandas reads, written       *)
(* "nan".                                                                  *)
(***************************************************************************)
\* inv.sort_values("quantity_available"), ties in row order
RECURSIVE InsertByAvailable(_, _)
InsertByAvailable(r, s) ==
    IF s = <<>> THEN <<r>>
    ELSE IF r.quantity_available < Head(s).quantity_available
         THEN <<r>> \o s
         ELSE <<Head(s)>> \o InsertByAvailable(r, Tail(s))

RECURSIVE SortByAvailable(_)
SortByAvailable(s) ==
    IF s = <<>> THEN <<>>
    ELSE InsertByAvailable(s[Len(s)], SortByAvailable(SubSeq(s, 1, Len(s) - 1)))

\* inv.merge(rules, on=["warehouse_id", "product_id"], how="inner")
RECURSIVE MergeInner(_, _)
MergeInner(inv, rules) ==
    IF inv = <<>> THEN <<>>
    ELSE LET Matches(r) == /\ r.warehouse_id = Head(inv).warehouse_id
                           /\ r.product_id = Head(inv).product_id
             found == SelectSeq(rules, Matches)
         IN [i \in 1..Len(found) |->
                [warehouse_id |-> Head(inv).warehouse_id,
                 product_id |-> Head(inv).product_id,
                 quantity_on_hand |-> Head(inv).quantity_on_hand,
                 quantity_reserved |-> Head(inv).quantity_reserved,
                 quantity_available |-> Head(inv).quantity_available,
                 reorder_point |-> found[i].reorder_point,
                 safety_stock |-> found[i].safety_stock]]
            \o MergeInner(Tail(inv), rules)

\* every alert gets urgency "warning"
urgency_always_warning(row) == "warning"

\* alerts["urgency"] = "warning", then "critical" where
\* quantity_available <= safety_stock
urgency(row) ==
    IF row.quantity_available <= row.safety_stock THEN "critical" ELSE "warning"

\* get_seller_inventory_summary(seller_id); T holds the four tables read
get_seller_inventory_summary(T, seller_id) ==
    LET OfSeller(r) == r.seller_id = seller_id
        seller_wh == SelectSeq(T.seller_warehouse, OfSeller)
        row == seller_wh[1]
        primary_wid == row.primary_warehouse_id
        Info(wid) ==
            LET IsWid(w) == w.warehouse_id = wid
                wh_info == SelectSeq(T.warehouses, IsWid)
            IN IF wid = "nan" \/ wh_info = <<>> THEN <<>> ELSE <<wh_info[1]>>
        InPrimary(r) == r.warehouse_id = primary_wid
        inv == SelectSeq(T.inventory, InPrimary)
        rules == SelectSeq(T.reorder_rules, InPrimary)
        BelowPoint(r) == r.quantity_available <= r.reorder_point
        below == SelectSeq(MergeInner(inv, rules), BelowPoint)
        alerts == [i \in 1..Len(below) |->
                     [warehouse_id |-> below[i].warehouse_id,
                      product_id |-> below[i].product_id,
                      quantity_on_hand |-> below[i].quantity_on_hand,
                      quantity_reserved |-> below[i].quantity_reserved,
                      quantity_available |-> below[i].quantity_available,
                      reorder_point |-> below[i].reorder_point,
                      safety_stock |-> below[i].safety_stock,
                      urgency |-> urgency(below[i])]]
    IN IF seller_wh = <<>>
       THEN [has_data |-> FALSE, primary_warehouse |-> None,
             secondary_warehouse |-> None, primary_info |-> <<>>,
             secondary_info |-> <<>>, inventory_items |-> <<>>,
             reorder_alerts |-> <<>>]
       ELSE [has_data |-> TRUE, primary_warehouse |-> primary_wid,
             secondary_warehouse |-> row.secondary_warehouse_id,
             primary_info |-> Info(primary_wid),
             secondary_info |-> Info(row.secondary_warehouse_id),
             inventory_items |-> inv,
             reorder_alerts |->
                 IF inv # <<>> /\ rules # <<>> THEN SortByAvailable(alerts) ELSE <<>>]

\* one entry of a roadmap phase
RoadmapItem(text, detail) == [text |-> text, detail |-> detail]

\* a phase without its fallback entry
no_default(items, default) == items

\* if not goals: goals.append(default)
or_default(items, default) == IF items = <<>> THEN <<default>> ELSE items

\* GROWTH_TARGETS: reviews in hundredths, late deliveries in thousandths,
\* photos in tenths
GROWTH_TARGETS ==
    [phase1 |-> [label |-> "laying the foundation", total_orders |-> 15,
                 avg_review |-> 380, late_delivery_pct |-> 80,
                 product_variety |-> 10, avg_photos |-> 30],
     phase2 |-> [label |-> "accelerating growth", total_orders |-> 40,
                 avg_review |-> 400, late_delivery_pct |-> 50,
                 product_variety |-> 20, total_revenue |-> 5000],
     phase3 |-> [label |-> "entering top performers", total_orders |-> 98,
                 avg_review |-> 410, late_delivery_pct |-> 40,
                 product_variety |-> 36, total_revenue |-> 12000]]

generate_growth_roadmap(m) ==
    LET phase1 == GROWTH_TARGETS.phase1
        phase2 == GROWTH_TARGETS.phase2
        phase3 == GROWTH_TARGETS.phase3
        short_goals ==
            (IF m.avg_review < phase1.avg_review /\ m.avg_review > 0
             THEN <<RoadmapItem("raise review score", <<m.avg_review, phase1.avg_review>>)>>
             ELSE <<>>)
            \o (IF m.late_delivery_pct > phase1.late_delivery_pct
                THEN <<RoadmapItem("reduce late deliveries",
                                   <<m.late_delivery_pct, phase1.late_delivery_pct>>)>>
                ELSE <<>>)
            \o (IF m.product_variety < phase1.product_variety
                THEN <<RoadmapItem("expand products",
                                   <<m.product_variety, phase1.product_variety>>)>>
                ELSE <<>>)
            \o (IF m.avg_photos < phase1.avg_photos
                THEN <<RoadmapItem("register more photos", <<phase1.avg_photos>>)>>
                ELSE <<>>)
        mid_goals ==
            (IF m.total_orders < phase2.total_orders
             THEN <<RoadmapItem("reach monthly orders", <<phase2.total_orders>>)>>
             ELSE <<>>)
            \o (IF m.avg_review < phase2.avg_review /\ m.avg_review > 0
                THEN <<RoadmapItem("reach review score", <<phase2.avg_review>>)>>
                ELSE <<>>)
            \o (IF m.product_variety < phase2.product_variety
                THEN <<RoadmapItem("expand line-up", <<phase2.product_variety>>)>>
                ELSE <<>>)
            \o <<RoadmapItem("revenue target", <<phase2.total_revenue>>)>>
        long_goals ==
            << RoadmapItem("total orders (top performer level)", <<phase3.total_orders>>),
               RoadmapItem("keep review score", <<phase3.avg_review>>),
               RoadmapItem("operate products", <<phase3.product_variety>>),
               RoadmapItem("reach revenue", <<phase3.total_revenue>>),
               RoadmapItem("keep late deliveries under", <<phase3.late_delivery_pct>>) >>
    IN << [phase |-> "short-term (1-3 months)", label |-> phase1.label,
           goals |-> or_default(short_goals,
                                RoadmapItem("keep and stabilise current results", <<>>))],
          [phase |-> "mid-term (3-6 months)", label |-> phase2.label,
           goals |-> mid_goals],
          [phase |-> "long-term (6-12 months)", label |-> phase3.label,
           goals |-> long_goals] >>

\* truth value of a warehouse id: None and "" are false, nan is true
Truthy(x) == x # None /\ x # ""

generate_delivery_roadmap(d, inv) ==
    LET alerts == Get(inv, "reorder_alerts", <<>>)
        immediate_actions ==
            (IF Get(d, "has_data", FALSE)
             THEN (IF Get(d, "dispatch_delay_rate", 0) > 100
                   THEN <<RoadmapItem("review the dispatch process", <<>>)>> ELSE <<>>)
                  \o (IF Get(d, "delivery_delay_rate", 0) > 100
                      THEN <<RoadmapItem("analyse causes of late deliveries", <<>>)>>
                      ELSE <<>>)
             ELSE <<>>)
            \o (IF Get(inv, "has_data", FALSE) /\ Len(alerts) > 0
                THEN <<RoadmapItem("urgent restocking",
                                   <<Len(alerts), CriticalCount(alerts)>>)>>
                ELSE <<>>)
        rainy == Get(Get(d, "season_stats", EmptyDict), "rainy", EmptyDict)
        mid_actions ==
            (IF Get(d, "has_data", FALSE) /\ Get(rainy, "delivery_delay_rate", 0) > 100
             THEN << RoadmapItem("rainy-season stock build-up", <<>>),
                     RoadmapItem("diversify transport routes", <<>>) >>
             ELSE <<>>)
            \o (IF Get(inv, "has_data", FALSE) /\ Get(inv, "primary_info", <<>>) # <<>>
                THEN <<RoadmapItem("optimise warehouse use",
                                   <<inv.primary_info[1].warehouse_name>>)>>
                ELSE <<>>)
        long_actions ==
            (IF Get(inv, "has_data", FALSE)
             THEN <<RoadmapItem("run automatic reordering", <<>>)>>
                  \o (IF Truthy(Get(inv, "secondary_warehouse", None))
                      THEN <<RoadmapItem("extend secondary warehouse use",
                                         <<inv.secondary_warehouse>>)>>
                      ELSE <<>>)
             ELSE <<>>)
            \o (IF Get(d, "has_data", FALSE)
                THEN <<RoadmapItem("quarterly delivery review", <<>>)>> ELSE <<>>)
    IN << [phase |-> "Phase 1: immediate improvement (0-30 days)",
           actions |-> or_default(immediate_actions,
                          RoadmapItem("set up delivery monitoring", <<>>))],
          [phase |-> "Phase 2: seasonal readiness (30-60 days)",
           actions |-> or_default(mid_actions,
                          RoadmapItem("build a forecast model from delivery data", <<>>))],
          [phase |-> "Phase 3: long-term optimisation (60-90 days)",
           actions |-> or_default(long_actions,
                          RoadmapItem("set up logistics partnerships and stock strategy",
                                      <<>>))] >>

\* rows of olist_warehouse_inventory.csv for one product of warehouse WH1:
\* 10 on hand, the rest reserved
StockRows(product_id, availables) ==
    { <<>> } \cup
    { << [warehouse_id |-> "WH1", product_id |-> product_id, quantity_on_hand |-> 10,
          quantity_reserved |-> 10 - a, quantity_available |-> a] >> : a \in availables }

\* the four tables: products p1 and p2 in WH1 around a reorder point of 5
\* and a safety stock of 3, an out-of-stock product in WH2, a rule for p1
\* that may be missing, and a seller assigned to WH1 with or without a
\* secondary warehouse, or not assigned at all
InventoryTables ==
    { [seller_warehouse |-> sw, warehouses |-> wh,
       inventory |-> p1 \o p2 \o << [warehouse_id |-> "WH2", product_id |-> "p1",
                                     quantity_on_hand |-> 0, quantity_reserved |-> 0,
                                     quantity_available |-> 0] >>,
       reorder_rules |-> r1 \o
           << [warehouse_id |-> "WH1", product_id |-> "p2", reorder_point |-> 5,
               safety_stock |-> 3],
              [warehouse_id |-> "WH2", product_id |-> "p1", reorder_point |-> 5,
               safety_stock |-> 3] >>]
        : sw \in { << [seller_id |-> "s2", primary_warehouse_id |-> "WH2",
                       secondary_warehouse_id |-> "nan"] >>,
                   << [seller_id |-> "s1", primary_warehouse_id |-> "WH1",
                       secondary_warehouse_id |-> "WH2"] >>,
                   << [seller_id |-> "s1", primary_warehouse_id |-> "WH1",
                       secondary_warehouse_id |-> "nan"] >> },
          wh \in { <<>>, << [warehouse_id |-> "WH1", warehouse_name |-> "Sao Paulo hub"] >> },
          p1 \in StockRows("p1", {3, 4, 5, 6}),
          p2 \in StockRows("p2", {3, 6}),
          r1 \in { <<>>, << [warehouse_id |-> "WH1", product_id |-> "p1",
                             reorder_point |-> 5, safety_stock |-> 3] >> } }

\* the delivery analyses the roadmap and the reorder rule are run on
RoadmapDeliveryVals ==
    { d \in DeliveryVals :
        d.has_data => /\ d.avg_transit_days = 117
                      /\ d.review_on_time = <<>>
                      /\ d.dispatch_delay_rate \in {95, 150}
                      /\ d.delivery_delay_rate \in {100, 150} }

\* the fields of SellerMetrics the growth roadmap reads
RoadmapMetricsVals ==
    { [seller_id |-> "s1", avg_review |-> rv, late_delivery_pct |-> ld,
       product_variety |-> pv, avg_photos |-> ph, total_orders |-> n]
        : rv \in {0, 379, 380, 399, 400}, ld \in {80, 81}, pv \in {9, 10, 19, 20},
          ph \in {29, 30}, n \in {39, 40} }

(***************************************************************************)
(* engine/review_analyzer.py                                               *)
(*                                                                         *)
(* A comment text is the set of keywords of the two lists that occur in    *)
(* its lower-cased form, which is all the classifier reads of it.  A       *)
(* missing comment is NaN.  A Counter or dict is a sequence of <<key,      *)
(* value>> pairs in insertion order.                                       *)
(***************************************************************************)
\* ISSUE_KEYWORDS, in definition order
ISSUE_KEYWORDS ==
    << [category |-> "delivery delay",
        keywords |-> {
            "entrega", "atraso", "atrasou", "demora", "demorou", "demoro",
            "prazo", "dias", "semana", "semanas", "chegou tarde",
            "não chegou", "nao chegou", "frete", "correios",
            "transportadora", "encomenda", "rastreio", "rastreamento",
            "extraviado", "perdido"}],
       [category |-> "product quality",
        keywords |-> {
            "qualidade", "defeito", "defeituoso", "quebrado", "quebrou",
            "danificado", "estragado", "ruim", "péssimo", "pessimo",
            "horrível", "horrivel", "lixo", "porcaria", "não funciona",
            "nao funciona", "parou", "problema", "falha"}],
       [category |-> "packaging",
        keywords |-> {
            "embalagem", "amassado", "amassada", "caixa", "proteção",
            "protecao", "aberta", "aberto", "rasgado", "rasgada",
            "mal embalado", "sem proteção", "sem protecao"}],
       [category |-> "expectation mismatch",
        keywords |-> {
            "foto", "imagem", "descrição", "descricao", "tamanho", "cor",
            "diferente", "parece", "esperava", "não corresponde",
            "nao corresponde", "enganoso", "propaganda", "falso", "falsa",
            "menor", "maior", "errado", "errada"}] >>

POSITIVE_KEYWORDS ==
    {
        "excelente", "ótimo", "otimo", "perfeito", "maravilhoso",
        "recomendo", "amei", "adorei", "rápido", "rapido", "antes do prazo",
        "chegou antes", "boa qualidade", "muito bom", "satisfeito",
        "satisfeita", "nota 10"}

\* classify_review(text): the categories, in definition order, one of whose
\* keywords occurs in the text
classify_review(text) ==
    LET Hit(entry) == entry.keywords \cap text # {}
        hits == SelectSeq(ISSUE_KEYWORDS, Hit)
    IN [i \in 1..Len(hits) |-> hits[i].category]

\* is_positive_review(text)
is_positive_review(text) == POSITIVE_KEYWORDS \cap text # {}

\* counter[cat] += 1: a new key goes to the end
Increment(counter, cat) ==
    IF \E i \in 1..Len(counter) : counter[i][1] = cat
    THEN [i \in 1..Len(counter) |->
             IF counter[i][1] = cat THEN <<cat, counter[i][2] + 1>> ELSE counter[i]]
    ELSE Append(counter, <<cat, 1>>)

\* for cat in categories: counter[cat] += 1
RECURSIVE IncrementAll(_, _)
IncrementAll(counter, categories) ==
    IF categories = <<>> THEN counter
    ELSE IncrementAll(Increment(counter, Head(categories)), Tail(categories))

\* the key of the largest count, ties going to the key defined first in
\* ISSUE_KEYWORDS
most_common_by_category_order(counter) ==
    LET mx == CHOOSE c \in Range(Column(counter, 2)) :
                 \A i \in 1..Len(counter) : counter[i][2] <= c
        Top(entry) == <<entry.category, mx>> \in Range(counter)
    IN SelectSeq(ISSUE_KEYWORDS, Top)[1].category

\* Counter.most_common(1)[0][0]: the key of the largest count, ties going to
\* the key inserted first
most_common(counter) ==
    LET mx == CHOOSE c \in Range(Column(counter, 2)) :
                 \A i \in 1..Len(counter) : counter[i][2] <= c
        IsMax(pair) == pair[2] = mx
    IN SelectSeq(counter, IsMax)[1][1]

\* shares of the total number of reviews
issue_pct_of_total(all_issues, analyzed_count, total_count) ==
    [i \in 1..Len(all_issues) |->
        <<all_issues[i][1], Frac(all_issues[i][2], total_count)>>]

\* {cat: count / analyzed_count for cat, count in all_issues.items()}
issue_pct(all_issues, analyzed_count, total_count) ==
    [i \in 1..Len(all_issues) |->
        <<all_issues[i][1], Frac(all_issues[i][2], analyzed_count)>>]

\* the loop over text_reviews.iterrows()
RECURSIVE Tally(_, _)
Tally(rows, acc) ==
    IF rows = <<>> THEN acc
    ELSE LET text == Head(rows).review_comment_message[1]
             score == Head(rows).review_score
             categories == classify_review(text)
         IN Tally(Tail(rows),
                  [all_issues |-> IncrementAll(acc.all_issues, categories),
                   neg_issues |-> IF score # NaN /\ score[1] <= 2
                                  THEN IncrementAll(acc.neg_issues, categories)
                                  ELSE acc.neg_issues,
                   examples |-> [cat \in DOMAIN acc.examples |->
                                    IF cat \in Range(categories) /\ Len(acc.examples[cat]) < 2
                                    THEN Append(acc.examples[cat], text)
                                    ELSE acc.examples[cat]],
                   positive_count |-> acc.positive_count
                                         + (IF is_positive_review(text) THEN 1 ELSE 0)])

analyze_seller_reviews(reviews_df) ==
    LET HasText(r) == r.review_comment_message # NaN
        text_reviews == SelectSeq(reviews_df, HasText)
        analyzed_count == Len(text_reviews)
        categories == [i \in 1..Len(ISSUE_KEYWORDS) |-> ISSUE_KEYWORDS[i].category]
        tally == Tally(text_reviews,
                       [all_issues |-> <<>>, neg_issues |-> <<>>,
                        examples |-> [cat \in Range(categories) |-> <<>>],
                        positive_count |-> 0])
        HasExamples(cat) == tally.examples[cat] # <<>>
        shown == SelectSeq(categories, HasExamples)
    IN IF text_reviews = <<>>
       THEN [issue_counts |-> <<>>, issue_pct |-> <<>>, negative_issues |-> <<>>,
             positive_count |-> 0, analyzed_count |-> analyzed_count,
             total_count |-> Len(reviews_df), primary_issue |-> None,
             examples |-> <<>>]
       ELSE [issue_counts |-> tally.all_issues,
             issue_pct |-> issue_pct(tally.all_issues, analyzed_count, Len(reviews_df)),
             negative_issues |-> tally.neg_issues,
             positive_count |-> tally.positive_count,
             analyzed_count |-> analyzed_count,
             total_count |-> Len(reviews_df),
             primary_issue |-> IF tally.all_issues # <<>>
                               THEN most_common(tally.all_issues) ELSE None,
             examples |-> [i \in 1..Len(shown) |-> <<shown[i], tally.examples[shown[i]]>>]]

\* largest number of review rows of a seller
MaxReviews == 3

\* comment texts: "chegou com atraso", "caixa amassada", "a caixa chegou com
\* atraso", "veio pelos correios" (which also contains "cor"), "produto
\* excelente", "ok"
CommentTexts ==
    { {"atraso"}, {"caixa", "amassada"}, {"caixa", "atraso"}, {"correios", "cor"},
      {"excelente"}, {} }

\* rows of review_text_df: a score and a comment, or no comment
ReviewRows ==
    { [review_score |-> <<s>>, review_comment_message |-> msg]
        : s \in {1, 5}, msg \in {NaN} \cup { <<t>> : t \in CommentTexts } }

ReviewTables == SeqsUpTo(ReviewRows, MaxReviews)

(***************************************************************************)
(* The pipeline of a seller page: app.py computes the (cached) metrics,    *)
(* views/consulting.py scores them and generates the advice                *)
(***************************************************************************)
\* customers.csv, products.csv with the category translation, and
\* reviews.csv, as build_merged_table joins them to the order items
CustomerState(customer_unique_id) == IF customer_unique_id = "c2" THEN "RJ" ELSE "SP"

ProductCategory(product_id) == IF product_id = "p1" THEN <<"watches_gifts">> ELSE NaN

ReviewComment(order_id) ==
    IF order_id = "o1" THEN << {"atraso"} >>
    ELSE IF order_id = "o3" THEN << {"excelente"} >>
    ELSE NaN

\* groupby("product_category_name_english")["price"].sum()
\*   .sort_values(ascending=False).head(10): the category column
category_revenue(seller_data) ==
    LET cats == dropna([i \in 1..Len(seller_data) |->
                           ProductCategory(seller_data[i].product_id)])
        keys == IF cats = <<>> THEN <<>> ELSE <<"watches_gifts">>
        Revenue(cat) ==
            LET InCat(r) == ProductCategory(r.product_id) = <<cat>>
            IN SeqSum(Column(SelectSeq(seller_data, InCat), "price"))
        sorted == Prefix(SortedDesc([i \in 1..Len(keys) |-> <<keys[i], Revenue(keys[i])>>]),
                         10)
    IN [i \in 1..Len(sorted) |-> sorted[i][1]]

\* groupby("customer_state")["customer_unique_id"].nunique()
\*   .sort_values(ascending=False).head(10)
customer_state_dist(seller_data) ==
    LET keys == InStateOrder({CustomerState(seller_data[i].customer_unique_id)
                                 : i \in 1..Len(seller_data)}, 1)
        Customers(st) ==
            Cardinality({seller_data[i].customer_unique_id :
                            i \in {j \in 1..Len(seller_data) :
                                     CustomerState(seller_data[j].customer_unique_id) = st}})
        sorted == Prefix(SortedDesc([i \in 1..Len(keys) |-> <<keys[i], Customers(keys[i])>>]),
                         10)
    IN [i \in 1..Len(sorted) |-> [state |-> sorted[i][1], customers |-> sorted[i][2]]]

\* review_text_df: the rows with a review score, their score and comment
ReviewTextRows(seller_data) ==
    LET Scored(r) == r.review_score # NaN
        scored == SelectSeq(seller_data, Scored)
    IN [i \in 1..Len(scored) |->
           [review_score |-> scored[i].review_score,
            review_comment_message |-> ReviewComment(scored[i].order_id)]]

\* compute_seller_metrics with the three analyses the advice rules read
SellerMetrics(merged_table, seller_id) ==
    LET IsSeller(r) == r.seller_id = seller_id
        seller_data == SelectSeq(merged_table, IsSeller)
        m == compute_seller_metrics(merged_table, seller_id)
    IN IF m = NoMetrics THEN NoMetrics
       ELSE m @@ [category_revenue |-> category_revenue(seller_data),
                  customer_state_dist |-> customer_state_dist(seller_data),
                  review_keyword_analysis |->
                      analyze_seller_reviews(ReviewTextRows(seller_data))]

\* a cache that answers with whatever entry it holds
cache_data_unkeyed(cache, seller_id, computed) ==
    IF DOMAIN cache # {} THEN cache[CHOOSE k \in DOMAIN cache : TRUE] ELSE computed

\* @st.cache_data on compute_seller_metrics(seller_id): the value stored
\* for the argument, or the computed one
cache_data(cache, seller_id, computed) ==
    IF seller_id \in DOMAIN cache THEN cache[seller_id] ELSE computed

(***************************************************************************)
(* engine/rule_engine.py: identify_strengths_weaknesses                    *)
(*                                                                         *)
(* A comparison is the record of (name, seller_val, top_val, ratio); the   *)
(* two values are in the same fixed-point unit and the ratio is exact.     *)
(***************************************************************************)
\* comparisons of higher-is-better metrics with CLUSTER_BENCHMARKS[0], in
\* dict insertion order; ratio = seller_val / top_val
comparisons(m) ==
    LET Cmp(name, seller_val, top_val) ==
            [name |-> name, seller_val |-> seller_val, top_val |-> top_val,
             ratio |-> IF top_val > 0 THEN Frac(seller_val, top_val) ELSE <<0, 1>>]
    IN << Cmp("total_orders", 10 * m.total_orders, 985),        \* 98.5
          Cmp("total_revenue", 10 * m.total_revenue, 121610),   \* 12161.0
          Cmp("avg_price", m.avg_price, 136),                   \* 136.0
          Cmp("product_variety", 10 * m.product_variety, 363),  \* 36.3
          Cmp("avg_review", m.avg_review, 406),                 \* 4.06
          Cmp("unique_customers", 10 * m.unique_customers, 874) >>  \* 87.4

\* the lower_better dict of identify_strengths_weaknesses, in insertion order
lower_better_comparisons(m) ==
    << [name |-> "avg_delivery_days", seller_val |-> m.avg_delivery_days,
        top_val |-> 121],                                       \* 12.1 days
       [name |-> "late_delivery_pct", seller_val |-> m.late_delivery_pct,
        top_val |-> 60],                                        \* 0.06
       [name |-> "low_review_pct", seller_val |-> m.low_review_pct,
        top_val |-> 100] >>                                     \* 0.10

\* (r[0], r[1], r[2])
Triple(r) == <<r.name, r.seller_val, r.top_val>>

\* the pass over lower_better: ratio = top_val / seller_val, appended to the
\* strengths above 1.2 and to the weaknesses below 0.5
RECURSIVE append_lower_better(_, _)
append_lower_better(lists, rest) ==
    IF rest = <<>> THEN lists
    ELSE LET r == Head(rest)
             counted == r.top_val > 0 /\ r.seller_val > 0
             next ==
                 IF counted /\ 10 * r.top_val > 12 * r.seller_val
                 THEN <<Append(lists[1], Triple(r)), lists[2]>>
                 ELSE IF counted /\ 2 * r.top_val < r.seller_val
                 THEN <<lists[1], Append(lists[2], Triple(r))>>
                 ELSE lists
         IN append_lower_better(next, Tail(rest))

\* identify_strengths_weaknesses(metrics): <<strengths[:3], weaknesses[:3]>>
identify_strengths_weaknesses(m) ==
    LET \* ratios.sort(key=lambda x: x[3], reverse=True): stable, descending
        ratios == SortByRatioDesc(comparisons(m))
        n == Len(ratios)
        first3 == Prefix(ratios, 3)
        last3 == SubSeq(ratios, IF n > 3 THEN n - 2 ELSE 1, n)
        lists == append_lower_better(
                     << [i \in 1..Len(first3) |-> Triple(first3[i])],
                        [i \in 1..Len(last3) |-> Triple(last3[i])] >>,
                     lower_better_comparisons(m))
    IN <<Prefix(lists[1], 3), Prefix(lists[2], 3)>>

\* the fields of SellerMetrics the comparison reads: a small and a large
\* seller, fast, average and slow delivery, few and many late deliveries and
\* low reviews
StrengthMetricsVals ==
    { [seller_id |-> "s1", total_orders |-> n, total_revenue |-> 1000,
       avg_price |-> ap, product_variety |-> 5, avg_review |-> rv,
       unique_customers |-> 10, avg_delivery_days |-> dd,
       late_delivery_pct |-> ld, low_review_pct |-> lr]
        : n \in {10, 200}, ap \in {50, 200}, rv \in {300, 450},
          dd \in {0, 80, 121, 300}, ld \in {0, 20, 200}, lr \in {50, 100, 300} }

(***************************************************************************)
(* data/preprocessor.py: _compute_distance_analysis                        *)
(*                                                                         *)
(* Distances are whole km per row and hundredths of a km once averaged;    *)
(* delivery days are tenths of a day.                                      *)
(***************************************************************************)
bins == <<0, 200, 500, 1000, 2000, 10000>>

labels == <<"0-200km", "200-500km", "500-1000km", "1000-2000km", "2000km+">>

\* pd.cut(distance_km, bins=bins, labels=labels): the label of the interval
\* (bins[k], bins[k+1]] that holds the distance, NaN when none does
cut(distance_km) ==
    LET holding == {k \in 1..Len(labels) :
                       bins[k] < distance_km /\ distance_km <= bins[k + 1]}
    IN IF holding = {} THEN NaN ELSE <<labels[CHOOSE k \in holding : TRUE]>>

\* groupby("dist_bin", observed=True).agg(avg_days, count): one row per label
\* that occurs, in label order
RECURSIVE group_by_dist_bin(_, _)
group_by_dist_bin(merged_geo, k) ==
    IF k > Len(labels) THEN <<>>
    ELSE LET InBin(r) == r.dist_bin = <<labels[k]>>
             rows == SelectSeq(merged_geo, InBin)
             days == Column(rows, "delivery_days")
         IN (IF rows = <<>> THEN <<>>
             ELSE << [dist_bin |-> labels[k],
                      avg_days |-> SeqSum(days) \div Len(days),
                      count |-> Len(days)] >>)
            \o group_by_dist_bin(merged_geo, k + 1)

\* _compute_distance_analysis(seller_id, seller_data, delivered); sellers_zip
\* is the seller's zip code prefix in the sellers table (<<>> without a row)
compute_distance_analysis(sellers_zip, delivered) ==
    LET HasDays(r) == r.delivery_days # NaN
        cust_zips == SelectSeq(delivered, HasDays)
        HasGeo(r) == r.customer_zip_code_prefix \in DOMAIN geo
        matched == SelectSeq(cust_zips, HasGeo)
    IN IF sellers_zip = <<>> THEN <<0, <<>> >>
       ELSE IF sellers_zip[1] \notin DOMAIN geo THEN <<0, <<>> >>
       ELSE IF cust_zips = <<>> THEN <<0, <<>> >>
       ELSE IF matched = <<>> THEN <<0, <<>> >>
       ELSE LET slat == geo[sellers_zip[1]][1]
                slng == geo[sellers_zip[1]][2]
                Distance(r) ==
                    haversine(slat, slng, geo[r.customer_zip_code_prefix][1],
                              geo[r.customer_zip_code_prefix][2])
                merged_geo ==
                    [i \in 1..Len(matched) |->
                        [delivery_days |-> matched[i].delivery_days[1],
                         distance_km |-> Distance(matched[i]),
                         dist_bin |-> cut(Distance(matched[i]))]]
                avg_dist == (100 * SeqSum(Column(merged_geo, "distance_km")))
                                \div Len(merged_geo)
            IN <<avg_dist, group_by_dist_bin(merged_geo, 1)>>

(***************************************************************************)
(* The pages of the dashboard, one computation per rerun                   *)
(***************************************************************************)
Init ==
    /\ pc = "idle"
    /\ metrics = NoMetrics
    /\ merged = <<>>
    /\ selected_seller_id = None
    /\ advices = <<>>
    /\ delivery = EmptyDict
    /\ inventory = EmptyDict
    /\ delivery_advices = <<>>
    /\ kpis = EmptyDict
    /\ dimension_scores = EmptyDict
    /\ health_score = 0
    /\ cluster_df = <<>>
    /\ percentiles = EmptyDict
    /\ seller_zip = <<>>
    /\ wh_recs = <<>>
    /\ logistics = EmptyDict
    /\ market = EmptyDict
    /\ regional_sd = <<>>
    /\ growth_regions = <<>>
    /\ normalized = <<>>
    /\ inv_tables = EmptyDict
    /\ growth_roadmap = <<>>
    /\ delivery_roadmap = <<>>
    /\ review_text_df = <<>>
    /\ review_keyword_analysis = EmptyDict
    /\ metrics_cache = EmptyDict
    /\ run_log = <<>>
    /\ csv_tables = <<>>
    /\ strengths = <<>>
    /\ weaknesses = <<>>
    /\ avg_distance_km = 0
    /\ distance_delivery = <<>>

\* views/consulting.py: advices = generate_all_advice(metrics)
GenerateAllAdvice ==
    /\ pc = "idle"
    /\ \E p \in Profiles :
       \E rv \in ReviewVals(p), ld \in LateDeliveryVals(p), dd \in DeliveryDaysVals(p),
          pv \in ProductVarietyVals(p), ph \in AvgPhotosVals(p),
          sd \in StateDistVals(p), cr \in CategoryVals(p), ap \in AvgPriceVals(p),
          cn \in CancelRateVals(p), cu \in CustomerVals(p),
          ka \in KeywordAnalysisVals(p) :
          LET m == [seller_id |-> "s1", avg_review |-> rv[1], low_review_pct |-> rv[2],
                    late_delivery_pct |-> ld, avg_delivery_days |-> dd,
                    product_variety |-> pv, avg_photos |-> ph,
                    customer_state_dist |-> sd, category_revenue |-> cr,
                    avg_price |-> ap, cancel_rate |-> cn, unique_customers |-> cu[1],
                    repeat_customer_rate |-> cu[2], review_keyword_analysis |-> ka]
          IN /\ metrics' = m
             /\ advices' = generate_all_advice(m)
    /\ pc' = "advice"
    /\ UNCHANGED <<delivery, inventory, delivery_advices, merged, selected_seller_id,
                   healthVars, rankVars, logisticsVars, marketVars,
                   consultingVars, reviewVars, pipelineVars, cacheVars,
                   strengthVars, distanceVars>>

\* views/delivery_inventory_consulting.py:
\* advices = generate_delivery_advice(delivery, inventory)
GenerateDeliveryAdvice ==
    /\ pc = "idle"
    /\ \E d \in DeliveryVals, inv \in InventoryVals :
          /\ delivery' = d
          /\ inventory' = inv
          /\ delivery_advices' = generate_delivery_advice(d, inv)
    /\ pc' = "delivery_advice"
    /\ UNCHANGED <<metrics, advices, merged, selected_seller_id,
                   healthVars, rankVars, logisticsVars, marketVars,
                   consultingVars, reviewVars, pipelineVars, cacheVars,
                   strengthVars, distanceVars>>

\* the eight arguments the views pass to compute_full_health
HealthArgs(m) ==
    [total_revenue |-> m.total_revenue, total_orders |-> m.total_orders,
     avg_review |-> m.avg_review, low_review_pct |-> m.low_review_pct,
     avg_delivery_days |-> m.avg_delivery_days,
     late_delivery_pct |-> m.late_delivery_pct,
     product_variety |-> m.product_variety,
     unique_customers |-> m.unique_customers]

\* app.py: metrics = compute_seller_metrics(selected_seller_id); the page
\* stops with an error when it is None
ComputeSellerMetrics ==
    /\ pc = "idle"
    /\ \E t \in MergedTables, s \in SellerIds :
          /\ merged' = t
          /\ selected_seller_id' = s
          /\ metrics' = compute_seller_metrics(t, s)
          /\ pc' = IF compute_seller_metrics(t, s) = NoMetrics
                   THEN "stopped" ELSE "metrics"
    /\ UNCHANGED <<adviceVars, healthVars, rankVars, logisticsVars, marketVars,
                   consultingVars, reviewVars, pipelineVars, cacheVars,
                   strengthVars, distanceVars>>

\* views/dashboard.py, views/consulting.py:
\* health_score, dim_scores = compute_full_health(metrics...)
ComputeFullHealth ==
    /\ pc = "metrics"
    /\ kpis' = HealthArgs(metrics)
    /\ health_score' = compute_full_health(HealthArgs(metrics))[1]
    /\ dimension_scores' = compute_full_health(HealthArgs(metrics))[2]
    /\ pc' = "full_health"
    /\ UNCHANGED <<metrics, merged, selected_seller_id, adviceVars, rankVars,
                   logisticsVars, marketVars, consultingVars, reviewVars,
                   pipelineVars, cacheVars, strengthVars, distanceVars>>

\* compute_dimension_scores called on arbitrary KPI values
ComputeDimensionScores ==
    /\ pc = "idle"
    /\ \E v \in KpiVals :
          LET k == [total_revenue |-> v.total_revenue, total_orders |-> v.total_orders,
                    avg_review |-> v.review[1], low_review_pct |-> v.review[2],
                    avg_delivery_days |-> v.avg_delivery_days,
                    late_delivery_pct |-> v.late_delivery_pct,
                    product_variety |-> v.product_variety,
                    unique_customers |-> v.unique_customers]
          IN /\ kpis' = k
             /\ dimension_scores' = compute_dimension_scores(k)
    /\ pc' = "dimension_scores"
    /\ UNCHANGED <<metrics, merged, selected_seller_id, health_score, adviceVars,
                   rankVars, logisticsVars, marketVars, consultingVars,
                   reviewVars, pipelineVars, cacheVars, strengthVars,
                   distanceVars>>

\* compute_health_score called on arbitrary dimension scores in 0..100
ComputeHealthScore ==
    /\ pc = "idle"
    /\ \E ds \in [DimensionNames -> ScoreGrid] :
          /\ dimension_scores' = ds
          /\ health_score' = compute_health_score(ds)
    /\ pc' = "health_score"
    /\ UNCHANGED <<metrics, merged, selected_seller_id, kpis, adviceVars,
                   rankVars, logisticsVars, marketVars, consultingVars,
                   reviewVars, pipelineVars, cacheVars, strengthVars,
                   distanceVars>>

\* compute_seller_metrics: m.percentiles = compute_percentile_ranks(seller_id)
ComputePercentileRanks ==
    /\ pc = "idle"
    /\ \E df \in ClusterTables, i \in 1..(MaxSellers + 1) :
          /\ cluster_df' = df
          /\ selected_seller_id' = ClusterSellerIds[i]
          /\ percentiles' = compute_percentile_ranks(df, ClusterSellerIds[i])
    /\ pc' = "percentiles"
    /\ UNCHANGED <<metrics, merged, adviceVars, healthVars, logisticsVars,
                   marketVars, consultingVars, reviewVars, pipelineVars,
                   cacheVars, strengthVars, distanceVars>>

\* views/logistics_consulting.py: logi = compute_seller_logistics(seller_id)
ComputeSellerLogistics ==
    /\ pc = "idle"
    /\ \E t \in ShipmentTables, z \in SellerZipVals, w \in WarehouseLayouts :
          /\ merged' = t
          /\ seller_zip' = z
          /\ wh_recs' = w
          /\ logistics' = compute_seller_logistics(t, z, w, "s1")
    /\ selected_seller_id' = "s1"
    /\ pc' = "logistics"
    /\ UNCHANGED <<metrics, adviceVars, healthVars, rankVars, marketVars,
                   consultingVars, reviewVars, pipelineVars, cacheVars,
                   strengthVars, distanceVars>>

\* views/market_opportunity.py: regional_sd = compute_regional_supply_demand()
ComputeRegionalSupplyDemand ==
    /\ pc = "idle"
    /\ \E c \in GroupCounts({"AM", "RJ", "SP"}, CustomerCounts),
          s \in GroupCounts({"AM", "RJ", "SP"}, SellerCounts) :
          /\ market' = [cust_by_state |-> c, seller_by_state |-> s]
          /\ regional_sd' = compute_regional_supply_demand(c, s)
    /\ growth_regions' = <<>>
    /\ normalized' = <<>>
    /\ pc' = "regional_sd"
    /\ UNCHANGED <<metrics, merged, selected_seller_id, adviceVars, healthVars,
                   rankVars, logisticsVars, consultingVars, reviewVars,
                   pipelineVars, cacheVars, strengthVars, distanceVars>>

\* views/market_opportunity.py:
\* growth_regions = compute_seller_growth_regions(seller_id, seller_cats, seller_state)
ComputeSellerGrowthRegions ==
    /\ pc = "idle"
    /\ \E f \in Markets, cats \in SellerCategoryVals, home \in {"SP", "AM"} :
          LET sd == compute_regional_supply_demand(
                        [st \in Range(StateOrder) |-> f[st].customers],
                        [st \in Range(StateOrder) |-> f[st].sellers])
              cat_state == CategoryStateMatrix(f)
          IN /\ market' = [cat_state |-> cat_state, seller_categories |-> cats,
                           seller_state |-> home]
             /\ regional_sd' = sd
             /\ growth_regions' = compute_seller_growth_regions(sd, cat_state, cats, home)
    /\ normalized' = <<>>
    /\ pc' = "growth_regions"
    /\ UNCHANGED <<metrics, merged, selected_seller_id, adviceVars, healthVars,
                   rankVars, logisticsVars, consultingVars, reviewVars,
                   pipelineVars, cacheVars, strengthVars, distanceVars>>

\* _normalize applied to a series
NormalizeSeries ==
    /\ pc = "idle"
    /\ \E series \in SeriesVals :
          /\ market' = [series |-> series]
          /\ normalized' = normalize(series)
    /\ pc' = "normalized"
    /\ UNCHANGED <<metrics, merged, selected_seller_id, regional_sd, growth_regions,
                   adviceVars, healthVars, rankVars, logisticsVars,
                   consultingVars, reviewVars, pipelineVars, cacheVars,
                   strengthVars, distanceVars>>

\* views/consulting.py: roadmap = generate_growth_roadmap(metrics)
GenerateGrowthRoadmap ==
    /\ pc = "idle"
    /\ \E m \in RoadmapMetricsVals :
          /\ metrics' = m
          /\ growth_roadmap' = generate_growth_roadmap(m)
    /\ pc' = "growth_roadmap"
    /\ UNCHANGED <<merged, selected_seller_id, inv_tables, delivery_roadmap, adviceVars,
                   healthVars, rankVars, logisticsVars, marketVars,
                   reviewVars, pipelineVars, cacheVars, strengthVars,
                   distanceVars>>

\* views/delivery_inventory_consulting.py:
\* inventory = get_seller_inventory_summary(seller_id), then
\* generate_delivery_advice and generate_delivery_roadmap on it
DeliveryInventoryConsulting ==
    /\ pc = "idle"
    /\ \E d \in RoadmapDeliveryVals, T \in InventoryTables :
          LET inv == get_seller_inventory_summary(T, "s1")
          IN /\ inv_tables' = T
             /\ delivery' = d
             /\ inventory' = inv
             /\ delivery_advices' = generate_delivery_advice(d, inv)
             /\ delivery_roadmap' = generate_delivery_roadmap(d, inv)
    /\ pc' = "delivery_consulting"
    /\ UNCHANGED <<metrics, advices, merged, selected_seller_id, growth_roadmap,
                   healthVars, rankVars, logisticsVars, marketVars,
                   reviewVars, pipelineVars, cacheVars, strengthVars,
                   distanceVars>>

\* data/preprocessor.py:
\* m.review_keyword_analysis = analyze_seller_reviews(review_text_df)
AnalyzeSellerReviews ==
    /\ pc = "idle"
    /\ \E df \in ReviewTables :
          /\ review_text_df' = df
          /\ review_keyword_analysis' = analyze_seller_reviews(df)
    /\ pc' = "reviews"
    /\ UNCHANGED <<metrics, merged, selected_seller_id, adviceVars, healthVars, rankVars,
                   logisticsVars, marketVars, consultingVars, pipelineVars,
                   cacheVars, strengthVars, distanceVars>>

\* what one run of the page yields for a seller: app.py stops on None
PageResult(seller_id, m) ==
    [seller_id |-> seller_id, metrics |-> m,
     health |-> IF m = NoMetrics THEN <<>> ELSE compute_full_health(HealthArgs(m)),
     advices |-> IF m = NoMetrics THEN <<>> ELSE generate_all_advice(m)]

\* the merged tables the page is run on: on-time, late and cancelled orders
\* of seller s1, a second customer, and the row of seller s2
PipelineTables ==
    { t \in MergedTables :
        \A i \in 1..Len(t) :
           /\ \/ t[i].seller_id = "s2"
              \/ t[i].order_status = "canceled"
              \/ t[i].delivery_days \in {<<70>>, <<300>>}
           /\ t[i].order_id = "o2" =>
                 t[i].customer_unique_id = "c2" /\ t[i].product_id = "p1" }

\* one run of the page for a seller on the merged table t
RunPage(t, seller_id) ==
    LET m == cache_data(metrics_cache, seller_id, SellerMetrics(t, seller_id))
        result == PageResult(seller_id, m)
    IN /\ merged' = t
       /\ selected_seller_id' = seller_id
       /\ metrics_cache' = (seller_id :> m) @@ metrics_cache
       /\ metrics' = m
       /\ kpis' = IF m = NoMetrics THEN kpis ELSE HealthArgs(m)
       /\ health_score' = IF m = NoMetrics THEN health_score ELSE result.health[1]
       /\ dimension_scores' = IF m = NoMetrics THEN dimension_scores
                              ELSE result.health[2]
       /\ advices' = result.advices
       /\ run_log' = Append(run_log, result)
       /\ UNCHANGED <<delivery, inventory, delivery_advices, rankVars, logisticsVars,
                      marketVars, consultingVars, reviewVars, strengthVars,
                   distanceVars>>

\* app.py: a seller is selected and the page is rendered
RunPipeline ==
    /\ pc = "idle"
    /\ \E t \in PipelineTables, s \in SellerIds : RunPage(t, s) /\ csv_tables' = t
    /\ pc' = "pipeline"

\* the user selects another seller; the tables are the same
RunPipelineOtherSeller ==
    /\ pc = "pipeline"
    /\ \E s \in SellerIds \ {selected_seller_id} : RunPage(merged, s)
    /\ pc' = "pipeline_other"
    /\ UNCHANGED cacheVars

\* the first seller is selected again; the tables are the same
RunPipelineAgain ==
    /\ pc \in {"pipeline", "pipeline_other"}
    /\ RunPage(merged, run_log[1].seller_id)
    /\ pc' = "pipeline_again"
    /\ UNCHANGED cacheVars

\* a newer extract of the same orders, in which one order has changed (its
\* status, its delivery or its review)
RefreshedTables(t) ==
    { u \in PipelineTables :
        /\ u # t
        /\ Len(u) = Len(t)
        /\ \A i \in 1..Len(t) :
              /\ u[i].seller_id = t[i].seller_id
              /\ u[i].order_id = t[i].order_id
              /\ u[i].customer_unique_id = t[i].customer_unique_id
              /\ u[i].product_id = t[i].product_id
        /\ \A i, j \in 1..Len(t) :
              u[i] # t[i] /\ u[j] # t[j] => t[i].order_id = t[j].order_id }

\* the CSV files under the data directory are replaced by a newer extract
\* while the app keeps running: no st.cache_data entry is keyed on the files
\* or cleared, so the loaded table and the cached metrics stay as they are
RefreshData ==
    /\ pc = "pipeline"
    /\ \E t \in RefreshedTables(csv_tables) : csv_tables' = t
    /\ pc' = "refreshed"
    /\ UNCHANGED <<metrics, merged, selected_seller_id, adviceVars, healthVars,
                   rankVars, logisticsVars, marketVars, consultingVars, reviewVars,
                   pipelineVars, strengthVars, distanceVars>>

\* a seller's page is requested after the refresh: build_merged_table() is
\* answered from its single cache entry, compute_seller_metrics(seller_id) from
\* the entry of the seller when there is one
RunPipelineRefreshed ==
    /\ pc = "refreshed"
    /\ \E s \in SellerIds : RunPage(merged, s)
    /\ pc' = "pipeline_refreshed"
    /\ UNCHANGED cacheVars

\* views/consulting.py:
\* strengths, weaknesses = identify_strengths_weaknesses(metrics)
IdentifyStrengthsWeaknesses ==
    /\ pc = "idle"
    /\ \E m \in StrengthMetricsVals :
          /\ metrics' = m
          /\ strengths' = identify_strengths_weaknesses(m)[1]
          /\ weaknesses' = identify_strengths_weaknesses(m)[2]
    /\ pc' = "strengths"
    /\ UNCHANGED <<merged, selected_seller_id, adviceVars, healthVars, rankVars,
                   logisticsVars, marketVars, consultingVars, reviewVars,
                   pipelineVars, cacheVars, distanceVars>>

\* compute_seller_metrics: m.avg_distance_km, m.distance_delivery =
\* _compute_distance_analysis(seller_id, seller_data, delivered)
ComputeDistanceAnalysis ==
    /\ pc = "idle"
    /\ \E t \in ShipmentTables, z \in SellerZipVals :
          LET IsDelivered(r) == r.seller_id = "s1" /\ r.order_status = "delivered"
              delivered == SelectSeq(t, IsDelivered)
          IN /\ merged' = t
             /\ seller_zip' = z
             /\ avg_distance_km' = compute_distance_analysis(z, delivered)[1]
             /\ distance_delivery' = compute_distance_analysis(z, delivered)[2]
    /\ selected_seller_id' = "s1"
    /\ pc' = "distance"
    /\ UNCHANGED <<metrics, wh_recs, logistics, adviceVars, healthVars, rankVars,
                   marketVars, consultingVars, reviewVars, pipelineVars, cacheVars,
                   strengthVars>>

\* streamlit reruns the script in a fresh process: nothing computed is kept
Rerun ==
    /\ pc # "idle"
    /\ pc' = "idle"
    /\ metrics' = NoMetrics
    /\ merged' = <<>>
    /\ selected_seller_id' = None
    /\ advices' = <<>>
    /\ delivery' = EmptyDict
    /\ inventory' = EmptyDict
    /\ delivery_advices' = <<>>
    /\ kpis' = EmptyDict
    /\ dimension_scores' = EmptyDict
    /\ health_score' = 0
    /\ cluster_df' = <<>>
    /\ percentiles' = EmptyDict
    /\ seller_zip' = <<>>
    /\ wh_recs' = <<>>
    /\ logistics' = EmptyDict
    /\ market' = EmptyDict
    /\ regional_sd' = <<>>
    /\ growth_regions' = <<>>
    /\ normalized' = <<>>
    /\ inv_tables' = EmptyDict
    /\ growth_roadmap' = <<>>
    /\ delivery_roadmap' = <<>>
    /\ review_text_df' = <<>>
    /\ review_keyword_analysis' = EmptyDict
    /\ metrics_cache' = EmptyDict
    /\ run_log' = <<>>
    /\ csv_tables' = <<>>
    /\ strengths' = <<>>
    /\ weaknesses' = <<>>
    /\ avg_distance_km' = 0
    /\ distance_delivery' = <<>>

NextAdvice == GenerateAllAdvice \/ GenerateDeliveryAdvice \/ Rerun

SpecAdvice == Init /\ [][NextAdvice]_vars

NextHealth ==
    \/ ComputeSellerMetrics
    \/ ComputeFullHealth
    \/ ComputeDimensionScores
    \/ ComputeHealthScore
    \/ Rerun

SpecHealth == Init /\ [][NextHealth]_vars

NextRanks == ComputePercentileRanks \/ Rerun

SpecRanks == Init /\ [][NextRanks]_vars

NextLogistics == ComputeSellerLogistics \/ ComputeDistanceAnalysis \/ Rerun

SpecLogistics == Init /\ [][NextLogistics]_vars

NextMarket ==
    \/ ComputeRegionalSupplyDemand
    \/ ComputeSellerGrowthRegions
    \/ NormalizeSeries
    \/ Rerun

SpecMarket == Init /\ [][NextMarket]_vars

NextConsulting ==
    \/ GenerateGrowthRoadmap
    \/ IdentifyStrengthsWeaknesses
    \/ DeliveryInventoryConsulting
    \/ Rerun

SpecConsulting == Init /\ [][NextConsulting]_vars

NextReviews == AnalyzeSellerReviews \/ Rerun

SpecReviews == Init /\ [][NextReviews]_vars

NextPipeline ==
    \/ RunPipeline
    \/ RunPipelineOtherSeller
    \/ RunPipelineAgain
    \/ Rerun

SpecPipeline == Init /\ [][NextPipeline]_vars

NextCache ==
    \/ RunPipeline
    \/ RefreshData
    \/ RunPipelineRefreshed
    \/ Rerun

SpecCache == Init /\ [][NextCache]_vars

(***************************************************************************)
(* Properties of the rule engines (checked under SpecAdvice)               *)
(***************************************************************************)
\* the rank the specification gives each priority
PriorityRank(p) ==
    CASE p = "critical" -> 0 [] p = "high" -> 1 [] p = "medium" -> 2 [] p = "low" -> 3

SortedByRank(s) ==
    \A i \in 1..(Len(s) - 1) :
        PriorityRank(s[i].priority) <= PriorityRank(s[i + 1].priority)

\* C1: the list generate_all_advice returns, and the list
\* generate_delivery_advice returns, is sorted by priority rank: any two
\* adjacent items i, i+1 have priorityRank(i) <= priorityRank(i+1).
C1_AdviceSortedByPriority ==
    /\ SortedByRank(advices)
    /\ SortedByRank(delivery_advices)

\* a general advice list in which the sort moved a later rule's advice in
\* front of an earlier rule's
C1_Witness ==
    /\ pc = "advice"
    /\ \E i, j \in 1..Len(advices) :
          /\ i < j
          /\ advices[i].rule > advices[j].rule
          /\ PriorityRank(advices[i].priority) < PriorityRank(advices[j].priority)

\* C2: the sort is stable: of two advice items of equal priority returned by
\* generate_all_advice, the one whose rule is declared earlier in the
\* catalogue comes first, whatever combination of rules fired.
C2_TiesKeepCatalogueOrder ==
    \A i, j \in 1..Len(advices) :
        (i < j /\ advices[i].priority = advices[j].priority)
            => advices[i].rule < advices[j].rule

\* two advices of equal priority behind an advice the sort pulled in front
\* of both from a later rule
C2_Witness ==
    /\ pc = "advice"
    /\ \E k, i, j \in 1..Len(advices) :
          /\ k < i /\ i < j
          /\ advices[i].priority = advices[j].priority
          /\ advices[k].rule > advices[j].rule

\* the advices of the general list that carry title t
WithTitle(t) ==
    LET Is(a) == a.title = t IN SelectSeq(advices, Is)

\* C3: the general late-delivery rule yields no advice when
\* late_delivery_pct <= 0.10, exactly one advice of priority high when
\* 0.10 < late_delivery_pct <= 0.20, and exactly one of priority critical when
\* late_delivery_pct > 0.20; in both firing cases the target value cites the
\* 6% Top Performer benchmark.
C3_LateDeliveryTiers ==
    pc = "advice" =>
        LET late == metrics.late_delivery_pct
            hits == WithTitle("late_delivery_rate")
        IN /\ late <= 100 => hits = <<>>
           /\ (100 < late /\ late <= 200) =>
                 /\ Len(hits) = 1
                 /\ hits[1].priority = "high"
                 /\ hits[1].target_value = "6% or less (Top Performer level)"
           /\ late > 200 =>
                 /\ Len(hits) = 1
                 /\ hits[1].priority = "critical"
                 /\ hits[1].target_value = "6% or less (Top Performer level)"

\* a seller with late-delivery rate 0.25 and its critical advice
C3_Witness ==
    /\ pc = "advice"
    /\ metrics.late_delivery_pct = 250
    /\ \E i \in 1..Len(advices) :
          advices[i].title = "late_delivery_rate" /\ advices[i].priority = "critical"

\* C4: for every metrics record with 3.5 <= avg_review < 4.0 the list of
\* generate_all_advice holds the high-priority sweet-spot advice, whichever
\* other rules fire, and it precedes every advice of priority medium or low.
C4_SweetSpotBeforeMediumLow ==
    (pc = "advice" /\ 350 <= metrics.avg_review /\ metrics.avg_review < 400) =>
        \E i \in 1..Len(advices) :
            /\ advices[i].title = "review_sweet_spot"
            /\ advices[i].priority = "high"
            /\ \A j \in 1..Len(advices) :
                  advices[j].priority \in {"medium", "low"} => i < j

\* review average 3.7, with a medium advice of an earlier rule (region
\* concentration) and a low one sorted behind the sweet-spot advice
C4_Witness ==
    /\ pc = "advice"
    /\ metrics.avg_review = 370
    /\ \E i, j, k \in 1..Len(advices) :
          /\ advices[i].title = "review_sweet_spot"
          /\ advices[j].title = "sp_concentration" /\ i < j
          /\ advices[k].priority = "low" /\ i < k

(***************************************************************************)
(* Properties of the metrics aggregator and the health scorer              *)
(* (checked under SpecHealth)                                              *)
(***************************************************************************)
\* the KPI fields a SellerMetrics record carries in this model
SellerMetricsFields ==
    {"seller_id", "active_months", "credit_card_pct",
     "total_revenue", "total_orders", "unique_customers", "avg_order_value", "total_items", "items_per_order", "product_variety",
     "avg_price", "avg_review", "low_review_pct", "avg_delivery_days",
     "late_delivery_pct", "avg_photos", "cancel_count", "cancel_rate",
     "repeat_customer_count", "repeat_customer_rate"}

SellerRowIndexes == {i \in 1..Len(merged) : merged[i].seller_id = selected_seller_id}

\* C5: compute_seller_metrics returns None if and only if the selected seller
\* has zero rows in the merged table; with zero rows the result is never a
\* zero-filled or partial record, and with rows it is the full record of the
\* selected seller.
C5_NoneIffNoRows ==
    pc \in {"metrics", "stopped"} =>
        /\ (metrics = NoMetrics) <=> (SellerRowIndexes = {})
        /\ SellerRowIndexes = {} => pc = "stopped"
        /\ SellerRowIndexes # {} =>
              /\ DOMAIN metrics = SellerMetricsFields
              /\ metrics.seller_id = selected_seller_id
              /\ metrics.total_items = Cardinality(SellerRowIndexes)

\* a seller without rows, in a table that holds rows of other sellers
C5_Witness ==
    /\ pc = "stopped"
    /\ Len(merged) > 0
    /\ SellerRowIndexes = {}
    /\ metrics = NoMetrics

\* C6: compute_health_score is within 0..100 for every map of six dimension
\* scores in 0..100, and raising one dimension score with the other five
\* held fixed never lowers it.
C6_HealthScoreBoundedMonotone ==
    /\ pc \in {"health_score", "full_health"} =>
          (0 <= health_score /\ health_score <= 1000)
    /\ pc = "health_score" =>
          \A d \in {"revenue", "orders", "review", "delivery", "product", "reach"} :
             \A v \in ScoreGrid :
                v >= dimension_scores[d] =>
                   compute_health_score([dimension_scores EXCEPT ![d] = v])
                      >= health_score

\* a map of scores where raising the review score strictly raises the total
C6_Witness ==
    /\ pc = "health_score"
    /\ dimension_scores["review"] = 0
    /\ dimension_scores["revenue"] = 1000
    /\ health_score > 0
    /\ compute_health_score([dimension_scores EXCEPT !["review"] = 1000])
          > health_score

\* C7: compute_dimension_scores returns exactly the six dimensions, each
\* within 0..100, for every combination of KPI inputs; revenue, orders and
\* reach are 0 when their input is zero or negative.
C7_SixDimensionsInRange ==
    pc \in {"dimension_scores", "full_health"} =>
        /\ DOMAIN dimension_scores =
              {"revenue", "orders", "review", "delivery", "product", "reach"}
        /\ \A d \in DOMAIN dimension_scores :
              0 <= dimension_scores[d] /\ dimension_scores[d] <= 1000
        /\ kpis.total_revenue <= 0 => dimension_scores["revenue"] = 0
        /\ kpis.total_orders <= 0 => dimension_scores["orders"] = 0
        /\ kpis.unique_customers <= 0 => dimension_scores["reach"] = 0

\* negative revenue, zero customers and an above-benchmark product variety
C7_Witness ==
    /\ pc = "dimension_scores"
    /\ kpis.total_revenue < 0
    /\ kpis.unique_customers = 0
    /\ kpis.total_orders > 98
    /\ kpis.product_variety > 36
    /\ dimension_scores["revenue"] = 0
    /\ dimension_scores["reach"] = 0
    /\ dimension_scores["orders"] = 1000
    /\ dimension_scores["product"] = 1000

\* rows of the selected seller's delivered orders
DeliveredRowIndexes ==
    {i \in SellerRowIndexes : merged[i].order_status = "delivered"}

\* 0.6 * clamp((30 - days) / 23 * 100) + 0.4 * clamp((1 - late) * 100) in
\* units of 1/2300 of a point, for days in tenths and late in thousandths
DeliveryFormula2300(days, late) ==
    LET day23 == IF days <= 70 THEN 2300
                 ELSE IF days >= 300 THEN 0 ELSE 10 * (300 - days)
        late10 == IF late >= 1000 THEN 0
                  ELSE IF late <= 0 THEN 1000 ELSE 1000 - late
    IN 60 * day23 + 92 * late10

\* the delivery score (tenths of a point) is the formula's value rounded to
\* one decimal
IsFormulaRounded(score, days, late) ==
    LET diff == 230 * score - DeliveryFormula2300(days, late)
    IN -115 <= diff /\ diff <= 115

\* C8 as stated: a seller with zero delivered orders gets exactly 50, and a
\* seller with delivered orders gets the weighted formula of its average
\* delivery days and late rate.
C8_AsStated ==
    pc = "full_health" =>
        /\ DeliveredRowIndexes = {} => dimension_scores["delivery"] = 500
        /\ DeliveredRowIndexes # {} =>
              IsFormulaRounded(dimension_scores["delivery"],
                               kpis.avg_delivery_days, kpis.late_delivery_pct)

\* C8: the delivery score is exactly 50, whatever the late rate, when
\* avg_delivery_days is 0, which is the case exactly when no delivered row of
\* the seller carries a delivery time (a seller with zero delivered orders
\* included); when avg_delivery_days is positive it is
\* 0.6*clamp((30-days)/23*100) + 0.4*clamp((1-late)*100) rounded to one
\* decimal, whose day component is 100 at 7 days and 0 at 30 days.
C8_DeliveryScore ==
    /\ pc \in {"dimension_scores", "full_health"} =>
          /\ kpis.avg_delivery_days = 0 => dimension_scores["delivery"] = 500
          /\ kpis.avg_delivery_days > 0 =>
                IsFormulaRounded(dimension_scores["delivery"],
                                 kpis.avg_delivery_days, kpis.late_delivery_pct)
          /\ (kpis.avg_delivery_days = 70 /\ kpis.late_delivery_pct = 0)
                => dimension_scores["delivery"] = 1000
          /\ (kpis.avg_delivery_days = 300 /\ kpis.late_delivery_pct = 0)
                => dimension_scores["delivery"] = 400
    /\ pc = "full_health" =>
          (kpis.avg_delivery_days = 0
              <=> \A i \in DeliveredRowIndexes : merged[i].delivery_days = NaN)

\* a seller whose only delivered order has no delivery time
C8_Witness ==
    /\ pc = "full_health"
    /\ DeliveredRowIndexes # {}
    /\ \A i \in DeliveredRowIndexes : merged[i].delivery_days = NaN
    /\ kpis.avg_delivery_days = 0
    /\ dimension_scores["delivery"] = 500

(***************************************************************************)
(* Properties of the percentile ranks (checked under SpecRanks)            *)
(***************************************************************************)
\* rows of the selected seller in the cluster table
SelectedClusterRows == {i \in 1..Len(cluster_df) : cluster_df[i].seller_id = selected_seller_id}

\* the rank another seller of the table gets for a column
RankOf(i, col) == compute_percentile_ranks(cluster_df, cluster_df[i].seller_id)[col]

DeliveredShipments ==
    {i \in 1..Len(merged) :
        merged[i].seller_id = selected_seller_id /\ merged[i].order_status = "delivered"}

\* zip code prefixes that have a row in the geolocation table
GeolocatedZips == {"SP", "RJ", "BA", "AM", "RS"}

\* scenarios 1, 2 and 3 follow the current scenario 0 in the list
ScenariosOrdered(sim) ==
    /\ Len(sim) = 4
    /\ sim[4].avg_distance <= sim[3].avg_distance
    /\ sim[3].avg_distance <= sim[2].avg_distance

\* C10 as stated: every seller with at least one delivered order gets a
\* simulation with scenarios 1, 2 and 3, ordered 5 warehouses <= 3 warehouses
\* <= single nearest warehouse.
C10_AsStated ==
    (pc = "logistics" /\ DeliveredShipments # {}) =>
        ScenariosOrdered(logistics.simulation)

\* C10: a seller whose zip code prefix is geolocated and who has at least one
\* delivered order to a geolocated customer zip code prefix gets a simulation
\* with scenarios 1, 2 and 3, ordered 5 warehouses <= 3 warehouses <= single
\* nearest warehouse; any other seller gets an empty simulation.
C10_ScenarioOrdering ==
    pc = "logistics" =>
        LET located ==
                /\ seller_zip # <<>>
                /\ seller_zip[1] \in GeolocatedZips
                /\ \E i \in DeliveredShipments :
                      merged[i].customer_zip_code_prefix \in GeolocatedZips
        IN /\ located => ScenariosOrdered(logistics.simulation)
           /\ ~located => logistics.simulation = <<>>

\* a simulation in which each added set of warehouses shortens the distance
C10_Witness ==
    /\ pc = "logistics"
    /\ Len(logistics.simulation) = 4
    /\ logistics.simulation[4].avg_distance < logistics.simulation[3].avg_distance
    /\ logistics.simulation[3].avg_distance < logistics.simulation[2].avg_distance

\* the labels of the four rows, in the order the simulation lists them
ScenarioLabels(sim) == [i \in 1..Len(sim) |-> sim[i].scenario]

\* C11 as stated: a produced simulation is ordered from worst to best, the
\* direct-ship row's mean distance being no smaller than the single-warehouse
\* row's, which is no smaller than the 3-warehouse row's, which is no smaller
\* than the 5-warehouse row's.
C11_AsStated ==
    (pc = "logistics" /\ logistics.simulation # <<>>) =>
        /\ Len(logistics.simulation) = 4
        /\ logistics.simulation[1].avg_distance >= logistics.simulation[2].avg_distance
        /\ logistics.simulation[2].avg_distance >= logistics.simulation[3].avg_distance
        /\ logistics.simulation[3].avg_distance >= logistics.simulation[4].avg_distance

\* C11: a produced simulation holds exactly four rows in the order direct
\* ship, nearest warehouse, 3 warehouses, 5 warehouses; the three warehouse
\* rows are ordered by non-increasing mean distance, and the direct-ship row
\* is the seller's observed mean distance to its customers.
C11_FourRowsWarehouseOrder ==
    (pc = "logistics" /\ logistics.simulation # <<>>) =>
        /\ ScenarioLabels(logistics.simulation) =
              <<"current", "nearest warehouse", "3 warehouses", "5 warehouses">>
        /\ logistics.simulation[2].avg_distance >= logistics.simulation[3].avg_distance
        /\ logistics.simulation[3].avg_distance >= logistics.simulation[4].avg_distance
        /\ logistics.simulation[1].avg_distance = logistics.avg_distance

\* a seller whose customers are nearer to it than to any warehouse: shipping
\* directly is shorter than every warehouse scenario
C11_Witness ==
    /\ pc = "logistics"
    /\ Len(logistics.simulation) = 4
    /\ logistics.simulation[1].avg_distance < logistics.simulation[4].avg_distance
    /\ logistics.simulation[4].avg_distance < logistics.simulation[2].avg_distance

\* the delivered rows of the seller whose customer zip code is geolocated
LocatedShipments ==
    LET Located(r) ==
            /\ r.seller_id = selected_seller_id
            /\ r.order_status = "delivered"
            /\ r.customer_zip_code_prefix \in GeolocatedZips
    IN SelectSeq(merged, Located)

\* the seller's observed mean freight, in millionths of R$
ObservedFreight ==
    (1000000 * SeqSum(Column(LocatedShipments, "freight_value")))
        \div Len(LocatedShipments)

\* the seller's observed mean delivery days, in ten-millionths of a day; 0
\* when no row has its delivery days
ObservedDays ==
    LET dd == dropna(Column(LocatedShipments, "delivery_days"))
    IN IF dd = <<>> THEN 0 ELSE (1000000 * SeqSum(dd)) \div Len(dd)

\* C26: scenario 0 reports the seller's observed mean freight and delivery
\* days; scenarios 1-3 report freight = 0.0104 * km + 13.70 and days =
\* 0.00606 * km + 8.64 of their own mean distance, so that among them a
\* smaller mean distance never comes with a larger freight or more days
C26_LinearEstimates ==
    (pc = "logistics" /\ logistics.simulation # <<>>) =>
        LET sim == logistics.simulation
        IN /\ sim[1].est_freight = ObservedFreight
           /\ sim[1].est_days = ObservedDays
           /\ \A i \in 2..4 :
                 /\ sim[i].est_freight = 104 * sim[i].avg_distance + 13700000
                 /\ sim[i].est_days = 606 * sim[i].avg_distance + 86400000
           /\ \A i, j \in 2..4 :
                 sim[i].avg_distance < sim[j].avg_distance =>
                     /\ sim[i].est_freight <= sim[j].est_freight
                     /\ sim[i].est_days <= sim[j].est_days

\* a seller paying R$30 on average over 20 days, for whom five warehouses
\* are estimated cheaper and faster than the nearest one alone
C26_Witness ==
    /\ pc = "logistics"
    /\ Len(logistics.simulation) = 4
    /\ logistics.simulation[1].est_freight = 30000000
    /\ logistics.simulation[1].est_days = 200000000
    /\ logistics.simulation[4].avg_distance < logistics.simulation[2].avg_distance
    /\ logistics.simulation[4].est_freight < logistics.simulation[2].est_freight
    /\ logistics.simulation[4].est_days < logistics.simulation[2].est_days

(***************************************************************************)
(* Properties of the market analyzer (checked under SpecMarket)            *)
(***************************************************************************)
\* C13: every state's ratio is customers / sellers when there are sellers
\* and customers * 10 when there are none, and its grade follows the ladder
\* in order: no sellers -> market entry possible; ratio >= 200 -> urgent
\* undersupply; >= 100 -> high opportunity; >= 50 -> medium opportunity;
\* otherwise saturated.
C13_RatioAndGradeLadder ==
    pc = "regional_sd" =>
        /\ {regional_sd[i].state : i \in 1..Len(regional_sd)} =
              DOMAIN market.cust_by_state \cup DOMAIN market.seller_by_state
        /\ \A i \in 1..Len(regional_sd) :
              LET r == regional_sd[i]
                  n == r.ratio[1]
                  d == r.ratio[2]
              IN /\ r.customers = Get(market.cust_by_state, r.state, 0)
                 /\ r.sellers = Get(market.seller_by_state, r.state, 0)
                 /\ d > 0
                 /\ r.sellers > 0 => n * r.sellers = r.customers * d
                 /\ r.sellers = 0 => n = r.customers * 10 * d
                 /\ r.opportunity_grade =
                       (IF r.sellers = 0 THEN "market entry possible"
                        ELSE IF n >= 200 * d THEN "urgent undersupply"
                        ELSE IF n >= 100 * d THEN "high opportunity"
                        ELSE IF n >= 50 * d THEN "medium opportunity"
                        ELSE "saturated")

\* a table with a state without sellers, a state exactly at ratio 200 and a
\* state just below ratio 50
C13_Witness ==
    /\ pc = "regional_sd"
    /\ Len(regional_sd) = 3
    /\ \E i \in 1..3 : /\ regional_sd[i].sellers = 0
                       /\ regional_sd[i].customers > 0
                       /\ regional_sd[i].opportunity_grade = "market entry possible"
    /\ \E i \in 1..3 : /\ regional_sd[i].sellers = 2
                       /\ regional_sd[i].customers = 400
                       /\ regional_sd[i].opportunity_grade = "urgent undersupply"
    /\ \E i \in 1..3 : /\ regional_sd[i].sellers = 2
                       /\ regional_sd[i].customers = 99
                       /\ regional_sd[i].opportunity_grade = "saturated"


(***************************************************************************)
(* Properties of the growth-region recommendation                          *)
(***************************************************************************)

\* the states that have a row of the category-state matrix in one of the
\* seller's categories
AggregatedStates ==
    { market.cat_state[i].state :
        i \in { j \in 1..Len(market.cat_state) :
                  market.cat_state[j].category \in Range(market.seller_categories) } }

\* the summed column of a state's rows in the seller's categories
MarketSum(st, col) ==
    LET Matches(r) == r.state = st /\ r.category \in Range(market.seller_categories)
    IN SeqSum(Column(SelectSeq(market.cat_state, Matches), col))

\* the customers-per-seller ratio of a state in regional_sd
RatioOf(st) ==
    LET i == CHOOSE j \in 1..Len(regional_sd) : regional_sd[j].state = st
    IN regional_sd[i].ratio

RevenueOf(st) == Frac(MarketSum(st, "revenue"), 1)

OrdersPerSellerOf(st) == Frac(MarketSum(st, "orders"), MarketSum(st, "sellers"))

\* C12: _normalize gives every entry of a constant series exactly 50 and
\* maps the minimum of a non-constant series to 0 and its maximum to 100
\* with everything else in between; a recommendation computed over states
\* that agree on all three components scores each of them 50.0
C12_NormalizeConstantSeries ==
    /\ pc = "normalized" =>
          LET s == market.series
              idx == 1..Len(s)
          IN /\ Len(normalized) = Len(s)
             /\ (\A i, j \in idx : s[i] = s[j]) =>
                   \A i \in idx : normalized[i] = <<50, 1>>
             /\ (\E i, j \in idx : s[i] # s[j]) =>
                   /\ \A i \in idx :
                         /\ (\A j \in idx : FLeq(s[i], s[j])) => normalized[i] = <<0, 1>>
                         /\ (\A j \in idx : FLeq(s[j], s[i])) => normalized[i] = <<100, 1>>
                         /\ FLeq(<<0, 1>>, normalized[i])
                         /\ FLeq(normalized[i], <<100, 1>>)
                   /\ \E i \in idx : normalized[i] = <<0, 1>>
                   /\ \E i \in idx : normalized[i] = <<100, 1>>
    /\ (/\ pc = "growth_regions"
        /\ \A a, b \in AggregatedStates :
              /\ RatioOf(a) = RatioOf(b)
              /\ RevenueOf(a) = RevenueOf(b)
              /\ OrdersPerSellerOf(a) = OrdersPerSellerOf(b)) =>
          \A i \in 1..Len(growth_regions) : growth_regions[i].opportunity_score = 500

\* six states agreeing on every component were aggregated and the five that
\* are not the seller's home were each scored 50.0
C12_Witness ==
    /\ pc = "growth_regions"
    /\ Cardinality(AggregatedStates) > 5
    /\ Len(growth_regions) = 5
    /\ \A i \in 1..5 : growth_regions[i].opportunity_score = 500


\* min-max position of a state's value among the states of S, as _normalize
\* scales it, from the definition
NormPos(Val(_), st, S) ==
    LET mn == CHOOSE x \in {Val(t) : t \in S} : \A t \in S : FLeq(x, Val(t))
        mx == CHOOSE x \in {Val(t) : t \in S} : \A t \in S : FLeq(Val(t), x)
    IN IF mx = mn THEN <<50, 1>>
       ELSE FMul(FDiv(FSub(Val(st), mn), FSub(mx, mn)), <<100, 1>>)

\* 0.4*norm(ratio) + 0.3*norm(revenue) + 0.3*norm(orders per seller) of a
\* state, the three scaled over the states of S
WeightedOpportunity(st, S) ==
    FAdd(FMul(<<2, 5>>, NormPos(RatioOf, st, S)),
         FAdd(FMul(<<3, 10>>, NormPos(RevenueOf, st, S)),
              FMul(<<3, 10>>, NormPos(OrdersPerSellerOf, st, S))))

\* the recommended list is short, ordered, and free of the home state
TopFiveOrderedWithoutHome ==
    /\ Len(growth_regions) <= 5
    /\ \A i \in 1..Len(growth_regions) :
          /\ growth_regions[i].state # market.seller_state
          /\ growth_regions[i].state \in AggregatedStates
          /\ growth_regions[i].opportunity_score \in 0..1000
    /\ \A i, j \in 1..Len(growth_regions) :
          i < j => growth_regions[i].opportunity_score >= growth_regions[j].opportunity_score

\* C14 as stated: each score is exactly the weighted sum, scaled either over
\* every aggregated state or over the states that may be recommended
C14_AsStated ==
    pc = "growth_regions" =>
       /\ TopFiveOrderedWithoutHome
       /\ \A i \in 1..Len(growth_regions) :
             LET r == growth_regions[i]
             IN \/ Frac(r.opportunity_score, 10)
                      = WeightedOpportunity(r.state, AggregatedStates)
                \/ Frac(r.opportunity_score, 10)
                      = WeightedOpportunity(r.state,
                                            AggregatedStates \ {market.seller_state})

\* C14: at most five regions are returned, by non-increasing score, none the
\* seller's home state; each score lies in [0,100] and is the weighted sum
\* 0.4*norm(ratio) + 0.3*norm(revenue) + 0.3*norm(orders per seller) rounded
\* to one decimal, the three scaled over every state where the seller's
\* categories are sold, the home state included
C14_TopFiveGrowthRegions ==
    pc = "growth_regions" =>
       /\ TopFiveOrderedWithoutHome
       /\ \A i \in 1..Len(growth_regions) :
             LET r == growth_regions[i]
                 exact == WeightedOpportunity(r.state, AggregatedStates)
             IN r.opportunity_score = RoundHalfEven(10 * exact[1], exact[2])

\* six regions besides the home state were scored with different scores and
\* five were returned
C14_Witness ==
    /\ pc = "growth_regions"
    /\ Cardinality(AggregatedStates \ {market.seller_state}) > 5
    /\ Len(growth_regions) = 5
    /\ growth_regions[1].opportunity_score > growth_regions[5].opportunity_score
    /\ growth_regions[5].opportunity_score > 0

\* no exact score lies halfway between two tenths
C14_NoTie ==
    pc = "growth_regions" =>
       \A i \in 1..Len(growth_regions) :
          LET exact == WeightedOpportunity(growth_regions[i].state, AggregatedStates)
          IN (20 * exact[1]) % exact[2] # 0 \/ ((20 * exact[1]) \div exact[2]) % 2 = 0


(***************************************************************************)
(* Properties of the roadmaps and of the reorder alerts                    *)
(***************************************************************************)

\* C15: both roadmap generators return three phases in the order
\* short-term/immediate, mid-term, long-term, each with at least one entry;
\* a phase none of whose triggers holds carries exactly its default entry
C15_ThreeNonEmptyPhases ==
    /\ pc = "growth_roadmap" =>
          /\ Len(growth_roadmap) = 3
          /\ growth_roadmap[1].phase = "short-term (1-3 months)"
          /\ growth_roadmap[2].phase = "mid-term (3-6 months)"
          /\ growth_roadmap[3].phase = "long-term (6-12 months)"
          /\ \A i \in 1..3 : growth_roadmap[i].goals # <<>>
          /\ (/\ metrics.avg_review >= 380 \/ metrics.avg_review <= 0
              /\ metrics.late_delivery_pct <= 80
              /\ metrics.product_variety >= 10
              /\ metrics.avg_photos >= 30) =>
                growth_roadmap[1].goals =
                    <<RoadmapItem("keep and stabilise current results", <<>>)>>
    /\ pc = "delivery_consulting" =>
          /\ Len(delivery_roadmap) = 3
          /\ delivery_roadmap[1].phase = "Phase 1: immediate improvement (0-30 days)"
          /\ delivery_roadmap[2].phase = "Phase 2: seasonal readiness (30-60 days)"
          /\ delivery_roadmap[3].phase = "Phase 3: long-term optimisation (60-90 days)"
          /\ \A i \in 1..3 : delivery_roadmap[i].actions # <<>>
          /\ (~delivery.has_data /\ ~inventory.has_data) =>
                \A i \in 1..3 :
                   /\ Len(delivery_roadmap[i].actions) = 1
                   /\ delivery_roadmap[i].actions[1].detail = <<>>

\* a seller with delivery data but nothing late and no inventory data: the
\* first two phases hold only their default entry
C15_Witness ==
    /\ pc = "delivery_consulting"
    /\ delivery.has_data
    /\ ~inventory.has_data
    /\ delivery_roadmap[1].actions = <<RoadmapItem("set up delivery monitoring", <<>>)>>
    /\ delivery_roadmap[2].actions =
          <<RoadmapItem("build a forecast model from delivery data", <<>>)>>
    /\ delivery_roadmap[3].actions = <<RoadmapItem("quarterly delivery review", <<>>)>>

\* the rows of the inventory table in the primary warehouse of seller s1
\* joined with their reorder rules
PrimaryStockWithRules ==
    LET OfSeller(r) == r.seller_id = "s1"
        assigned == SelectSeq(inv_tables.seller_warehouse, OfSeller)
    IN IF assigned = <<>> THEN {}
       ELSE { <<i, j>> \in (1..Len(inv_tables.inventory))
                               \X (1..Len(inv_tables.reorder_rules)) :
                /\ inv_tables.inventory[i].warehouse_id = assigned[1].primary_warehouse_id
                /\ inv_tables.reorder_rules[j].warehouse_id
                      = assigned[1].primary_warehouse_id
                /\ inv_tables.inventory[i].product_id
                      = inv_tables.reorder_rules[j].product_id }

\* the reorder advice in the advice list
ReorderAdvices ==
    LET IsReorder(a) == a.title = "reorder_alert"
    IN SelectSeq(delivery_advices, IsReorder)

\* C16: the reorder alerts are exactly the products of the primary warehouse
\* with quantity_available <= reorder_point, critical when
\* quantity_available <= safety_stock and warning otherwise; the reorder
\* advice is critical when some alert is critical, high when alerts exist and
\* none is critical, and absent when there is no alert
C16_ReorderAlerts ==
    pc = "delivery_consulting" =>
       LET alerts == inventory.reorder_alerts
           due == { p \in PrimaryStockWithRules :
                      inv_tables.inventory[p[1]].quantity_available
                         <= inv_tables.reorder_rules[p[2]].reorder_point }
       IN /\ Len(alerts) = Cardinality(due)
          /\ \A p \in due :
                \E k \in 1..Len(alerts) :
                   /\ alerts[k].product_id = inv_tables.inventory[p[1]].product_id
                   /\ alerts[k].warehouse_id = inv_tables.inventory[p[1]].warehouse_id
                   /\ alerts[k].urgency =
                         IF inv_tables.inventory[p[1]].quantity_available
                               <= inv_tables.reorder_rules[p[2]].safety_stock
                         THEN "critical" ELSE "warning"
          /\ \A k \in 1..Len(alerts) :
                \E p \in due :
                   alerts[k].product_id = inv_tables.inventory[p[1]].product_id
          /\ Len(ReorderAdvices) = IF alerts = <<>> THEN 0 ELSE 1
          /\ alerts # <<>> =>
                ReorderAdvices[1].priority =
                    IF \E k \in 1..Len(alerts) : alerts[k].urgency = "critical"
                    THEN "critical" ELSE "high"

\* one product at its safety stock and one between safety stock and reorder
\* point: two alerts, one of each urgency, and a critical advice
C16_Witness ==
    /\ pc = "delivery_consulting"
    /\ Len(inventory.reorder_alerts) = 2
    /\ inventory.reorder_alerts[1].urgency = "critical"
    /\ inventory.reorder_alerts[1].quantity_available = 3
    /\ inventory.reorder_alerts[2].urgency = "warning"
    /\ Len(ReorderAdvices) = 1
    /\ ReorderAdvices[1].priority = "critical"


(***************************************************************************)
(* Properties of the seasonal-risk rule                                    *)
(***************************************************************************)

\* the seasonal-risk advice in the delivery advice list
SeasonalAdvices ==
    LET IsSeasonal(a) == a.title = "rainy_season_risk"
    IN SelectSeq(delivery_advices, IsSeasonal)

\* rainy minus dry delivery-delay rate of the analysed seller, in thousandths
SeasonalGap ==
    delivery.season_stats["rainy"].delivery_delay_rate
       - delivery.season_stats["dry"].delivery_delay_rate

\* C17 as stated: the seasonal-risk rule produces advice only if both
\* rainy-season and dry-season statistics exist and the rainy delay rate
\* exceeds the dry one by more than 3 percentage points
C17_AsStated ==
    (pc = "delivery_advice" /\ SeasonalAdvices # <<>>) =>
       /\ delivery.has_data
       /\ {"rainy", "dry"} \subseteq DOMAIN delivery.season_stats
       /\ SeasonalGap > 30


(***************************************************************************)
(* Properties of the review analysis                                       *)
(***************************************************************************)

\* the rows with a comment, in the order they are processed
TextReviews ==
    LET HasText(r) == r.review_comment_message # NaN
    IN SelectSeq(review_text_df, HasText)

\* the processed rows whose text matches a category
MatchingRows(cat) ==
    { i \in 1..Len(TextReviews) :
        cat \in Range(classify_review(TextReviews[i].review_comment_message[1])) }

IssueCategories == { ISSUE_KEYWORDS[i].category : i \in 1..Len(ISSUE_KEYWORDS) }

\* the categories with the highest match count, when any review matches
TopCategories ==
    { c \in IssueCategories :
        /\ MatchingRows(c) # {}
        /\ \A other \in IssueCategories :
              Cardinality(MatchingRows(other)) <= Cardinality(MatchingRows(c)) }

\* position of a category in ISSUE_KEYWORDS
CategoryIndex(cat) == CHOOSE i \in 1..Len(ISSUE_KEYWORDS) : ISSUE_KEYWORDS[i].category = cat

\* the first processed row that matches a category
FirstMatch(cat) == CHOOSE i \in MatchingRows(cat) : \A j \in MatchingRows(cat) : i <= j

\* C18 as stated: the primary issue is the category with the highest match
\* count, and of several with the highest count the one defined first
C18_AsStated ==
    (pc = "reviews" /\ TopCategories # {}) =>
       /\ review_keyword_analysis.primary_issue \in TopCategories
       /\ \A c \in TopCategories :
             CategoryIndex(review_keyword_analysis.primary_issue) <= CategoryIndex(c)

\* C18: the primary issue is a category with the highest match count; of
\* several with the highest count it is the one matched earliest in the
\* order the reviews are processed, and of those first matched by the same
\* review the one defined first
C18_PrimaryIssueFirstSeen ==
    pc = "reviews" =>
       IF TopCategories = {}
       THEN review_keyword_analysis.primary_issue = None
       ELSE LET p == review_keyword_analysis.primary_issue
            IN /\ p \in TopCategories
               /\ \A c \in TopCategories \ {p} :
                     \/ FirstMatch(p) < FirstMatch(c)
                     \/ /\ FirstMatch(p) = FirstMatch(c)
                        /\ CategoryIndex(p) < CategoryIndex(c)

\* a packaging review precedes a delivery review: the two categories tie
\* and the later-defined one is the primary issue
C18_Witness ==
    /\ pc = "reviews"
    /\ TopCategories = {"delivery delay", "packaging"}
    /\ review_keyword_analysis.primary_issue = "packaging"

\* C19: the analysed reviews are exactly those with a comment; each issue
\* share is the category's match count over the analysed count and lies in
\* [0,1]; with no analysed review the counts and shares are empty and there
\* is no primary issue
C19_SharesOfAnalyzed ==
    pc = "reviews" =>
       LET r == review_keyword_analysis
       IN /\ r.analyzed_count = Len(TextReviews)
          /\ r.total_count = Len(review_text_df)
          /\ { r.issue_counts[i][1] : i \in 1..Len(r.issue_counts) }
                = { c \in IssueCategories : MatchingRows(c) # {} }
          /\ Len(r.issue_pct) = Len(r.issue_counts)
          /\ \A i \in 1..Len(r.issue_counts) :
                /\ r.issue_counts[i][2] = Cardinality(MatchingRows(r.issue_counts[i][1]))
                /\ r.issue_pct[i][1] = r.issue_counts[i][1]
                /\ r.issue_pct[i][2] = Frac(r.issue_counts[i][2], Len(TextReviews))
                /\ FLeq(<<0, 1>>, r.issue_pct[i][2])
                /\ FLeq(r.issue_pct[i][2], <<1, 1>>)
          /\ TextReviews = <<>> =>
                /\ r.issue_counts = <<>>
                /\ r.issue_pct = <<>>
                /\ r.primary_issue = None

\* three reviews, one without a comment, both others about late delivery:
\* the share is 1, not 2/3
C19_Witness ==
    /\ pc = "reviews"
    /\ review_keyword_analysis.total_count = 3
    /\ review_keyword_analysis.analyzed_count = 2
    /\ review_keyword_analysis.issue_pct = << <<"delivery delay", <<1, 1>> >> >>


(***************************************************************************)
(* Properties of the page pipeline                                         *)
(***************************************************************************)

C21_AsStated ==
    pc = "pipeline_refreshed" =>
        run_log[Len(run_log)] =
            PageResult(selected_seller_id, SellerMetrics(csv_tables, selected_seller_id))

\* the page was served after a refresh from the entry cached before it
C21_StaleServed ==
    /\ pc = "pipeline_refreshed"
    /\ Len(run_log) = 2
    /\ run_log[2] = run_log[1]
    /\ run_log[2].metrics # NoMetrics
    /\ SellerMetrics(csv_tables, selected_seller_id) # NoMetrics
    /\ SellerMetrics(csv_tables, selected_seller_id).avg_review
           # run_log[2].metrics.avg_review


(***************************************************************************)
(* Properties of the general catalogue on missing data                     *)
(* (checked under SpecAdvice)                                              *)
(***************************************************************************)

\* the catalogue numbers of the rules that gave advice
RulesFired == { advices[i].rule : i \in 1..Len(advices) }

\* the keyword analysis is the dataclass default {} or holds no issue
NoKeywordAnalysis ==
    \/ metrics.review_keyword_analysis = <<>>
    \/ metrics.review_keyword_analysis.issue_counts = <<>>

\* C22: a rule whose datum is missing (left at its default) gives no advice:
\* no photo data (avg_photos = 0) silences rule 4, an empty customer-state
\* table rule 5, an empty category table rule 7, an empty keyword analysis
\* rule 13, no review (avg_review = 0) rules 1, 6 and 10, no price rule 8 and
\* no delivery days rule 9
C22_AsStated ==
    pc = "advice" =>
        /\ metrics.avg_photos = 0 => 4 \notin RulesFired
        /\ metrics.customer_state_dist = <<>> => 5 \notin RulesFired
        /\ metrics.category_revenue = <<>> => 7 \notin RulesFired
        /\ NoKeywordAnalysis => 13 \notin RulesFired
        /\ metrics.avg_review = 0 => RulesFired \cap {1, 6, 10} = {}
        /\ metrics.avg_price = 0 => 8 \notin RulesFired
        /\ metrics.avg_delivery_days = 0 => 9 \notin RulesFired

\* the rest of C22_AsStated, which the code does satisfy: every missing datum
\* but the photo count silences its rule
MissingDataSilencesOtherRules ==
    pc = "advice" =>
        /\ metrics.customer_state_dist = <<>> => 5 \notin RulesFired
        /\ metrics.category_revenue = <<>> => 7 \notin RulesFired
        /\ NoKeywordAnalysis => 13 \notin RulesFired
        /\ metrics.avg_review = 0 => RulesFired \cap {1, 6, 10} = {}
        /\ metrics.avg_price = 0 => 8 \notin RulesFired
        /\ metrics.avg_delivery_days = 0 => 9 \notin RulesFired


(***************************************************************************)
(* Properties of the region-concentration rule (checked under SpecAdvice)  *)
(***************************************************************************)

\* the advice of rule 5 in the returned list
RegionAdvices ==
    LET IsRegion(a) == a.rule = 5
    IN SelectSeq(advices, IsRegion)

\* the customers of a state in customer_state_dist, 0 when it has no row
CustomersIn(state) ==
    LET Of(row) == row.state = state
        rows == SelectSeq(metrics.customer_state_dist, Of)
    IN IF rows = <<>> THEN 0 ELSE rows[1].customers

\* the states listed in customer_state_dist
ListedStates ==
    { metrics.customer_state_dist[i].state : i \in 1..Len(metrics.customer_state_dist) }

\* the demand/supply ratio of a region of REGION_DEMAND_SUPPLY
RegionRatio(region) ==
    LET i == CHOOSE k \in 1..Len(REGION_DEMAND_SUPPLY) :
                 REGION_DEMAND_SUPPLY[k][1] = region
    IN REGION_DEMAND_SUPPLY[i][2]

\* one medium advice that names three distinct regions, highest ratio first,
\* such that no region left out has a higher ratio than any named
OneAdviceNamingTopThree ==
    /\ Len(RegionAdvices) = 1
    /\ RegionAdvices[1].priority = "medium"
    /\ LET named == RegionAdvices[1].detail
           regions == { REGION_DEMAND_SUPPLY[k][1] : k \in 1..Len(REGION_DEMAND_SUPPLY) }
       IN /\ Len(named) = 3
          /\ \A i \in 1..3 : named[i] \in regions
          /\ \A i, j \in 1..3 : i < j => RegionRatio(named[i]) > RegionRatio(named[j])
          /\ \A r \in regions \ {named[1], named[2], named[3]} :
                RegionRatio(r) <= RegionRatio(named[3])

\* C23 as stated: the rule gives its advice exactly when some state, whichever
\* it is, holds more than half of the customers
C23_AsStated ==
    pc = "advice" =>
        LET total == StateDistTotal(metrics.customer_state_dist)
        IN IF \E st \in ListedStates : 2 * CustomersIn(st) > total
           THEN OneAdviceNamingTopThree
           ELSE RegionAdvices = <<>>

\* C23, amended: the rule gives one medium advice naming the three regions
\* with the highest demand/supply ratio exactly when SP holds more than half
\* of the customers counted in customer_state_dist; when SP holds half or
\* less, another state holding more than half included, it gives none
C23_SpConcentration ==
    pc = "advice" =>
        LET total == StateDistTotal(metrics.customer_state_dist)
        IN IF 2 * CustomersIn("SP") > total
           THEN OneAdviceNamingTopThree
           ELSE RegionAdvices = <<>>

\* two of three customers in SP: the advice names PA, CE and PE
C23_Witness ==
    /\ pc = "advice"
    /\ CustomersIn("SP") = 2
    /\ StateDistTotal(metrics.customer_state_dist) = 3
    /\ Len(RegionAdvices) = 1
    /\ RegionAdvices[1].detail = <<"PA", "CE", "PE">>

\* two of three customers in RJ: no advice
C23_OtherStateMajority ==
    /\ pc = "advice"
    /\ CustomersIn("RJ") = 2
    /\ StateDistTotal(metrics.customer_state_dist) = 3
    /\ RegionAdvices = <<>>


(***************************************************************************)
(* Properties of the SellerMetrics record (checked under SpecHealth)       *)
(***************************************************************************)

\* the rate fields of the record, in thousandths
RateFields ==
    {"low_review_pct", "late_delivery_pct", "cancel_rate", "repeat_customer_rate",
     "credit_card_pct"}

\* the count fields of the record
CountFields ==
    {"total_orders", "unique_customers", "total_items", "product_variety",
     "cancel_count", "repeat_customer_count"}

\* every rate is in [0, 1], every count is non-negative, the cancelled orders
\* are among the orders and the repeat customers among the customers
RatesAndCountsInRange ==
    pc = "metrics" =>
        /\ \A f \in RateFields : metrics[f] >= 0 /\ metrics[f] <= 1000
        /\ \A f \in CountFields : metrics[f] >= 0
        /\ metrics.cancel_count <= metrics.total_orders
        /\ metrics.repeat_customer_count <= metrics.unique_customers

\* C24: every record returned by compute_seller_metrics has its rates in
\* [0, 1], its counts non-negative with cancel_count <= total_orders and
\* repeat_customer_count <= unique_customers, and active_months >= 1 whenever
\* the seller has any order
C24_AsStated ==
    /\ RatesAndCountsInRange
    /\ (pc = "metrics" /\ metrics.total_orders >= 1) => metrics.active_months >= 1

\* a seller with an order and no purchase timestamp: active_months is 0
C24_NoTimestamp ==
    /\ pc = "metrics"
    /\ metrics.total_orders = 1
    /\ metrics.active_months = 0


(***************************************************************************)
(* Properties of the delivery catalogue on partial data                    *)
(* (checked under SpecAdvice)                                              *)
(***************************************************************************)

\* the catalogue numbers of the delivery rules that gave advice
DeliveryRulesFired == { delivery_advices[i].rule : i \in 1..Len(delivery_advices) }

\* what the five delivery rules say of the delivery analysis
DeliveryRuleAdvice ==
    rule_dispatch_delay(delivery) \o rule_delivery_delay_rate(delivery) \o
    rule_seasonal_risk(delivery) \o rule_transit_slow(delivery) \o
    rule_review_impact(delivery)

\* what the two inventory rules say of the inventory summary
InventoryRuleAdvice ==
    rule_reorder_alert(inventory) \o rule_inventory_utilization(inventory)

\* C25: generate_delivery_advice absorbs a missing analysis: with delivery
\* data and no inventory it returns the advice of the five delivery rules and
\* no other, with inventory and no delivery data the advice of the two
\* inventory rules and no other, with neither the empty list
C25_PartialAnalyses ==
    pc = "delivery_advice" =>
        /\ delivery.has_data /\ ~inventory.has_data =>
              /\ DeliveryRulesFired \subseteq 1..5
              /\ delivery_advices = sort_by_priority(DeliveryRuleAdvice)
        /\ ~delivery.has_data /\ inventory.has_data =>
              /\ DeliveryRulesFired \subseteq {6, 7}
              /\ delivery_advices = sort_by_priority(InventoryRuleAdvice)
        /\ ~delivery.has_data /\ ~inventory.has_data => delivery_advices = <<>>

\* delivery data without inventory: two delivery rules give advice
C25_Witness ==
    /\ pc = "delivery_advice"
    /\ delivery.has_data
    /\ ~inventory.has_data
    /\ {1, 4} \subseteq DeliveryRulesFired

\* inventory without delivery data: the reorder rule gives advice
C25_InventoryOnly ==
    /\ pc = "delivery_advice"
    /\ ~delivery.has_data
    /\ inventory.has_data
    /\ DeliveryRulesFired = {6}


(***************************************************************************)
(* Properties of the review rules (checked under SpecAdvice)               *)
(***************************************************************************)

\* C27: the critical review rule fires exactly when 0 < avg_review < 3.5 and
\* the sweet-spot rule exactly when 3.5 <= avg_review < 4.0; never both, and
\* neither without reviews (avg_review <= 0) nor from 4.0 upwards
C27_ReviewBandsPartition ==
    pc = "advice" =>
        /\ 1 \in RulesFired <=> (0 < metrics.avg_review /\ metrics.avg_review < 350)
        /\ 6 \in RulesFired <=> (350 <= metrics.avg_review /\ metrics.avg_review < 400)
        /\ ~({1, 6} \subseteq RulesFired)
        /\ (metrics.avg_review <= 0 \/ metrics.avg_review >= 400) =>
              RulesFired \cap {1, 6} = {}

\* an average of exactly 3.5: the sweet-spot rule alone
C27_Witness ==
    /\ pc = "advice"
    /\ metrics.avg_review = 350
    /\ 6 \in RulesFired
    /\ 1 \notin RulesFired

\* position of the advice of a rule in the returned list
PositionOf(rule) == CHOOSE i \in 1..Len(advices) : advices[i].rule = rule

\* C29: whenever rule 10 fires rule 1 fires too, both are critical and the
\* advice of rule 1 comes before that of rule 10; the diagnosis names
\* delivery exactly when late_delivery_pct > 0.15 or avg_delivery_days > 18,
\* and product quality/expectation otherwise
C29_DiagnosisFollowsCritical ==
    (pc = "advice" /\ 10 \in RulesFired) =>
        /\ 1 \in RulesFired
        /\ advices[PositionOf(1)].priority = "critical"
        /\ advices[PositionOf(10)].priority = "critical"
        /\ PositionOf(1) < PositionOf(10)
        /\ advices[PositionOf(10)].detail =
              IF metrics.late_delivery_pct > 150 \/ metrics.avg_delivery_days > 180
              THEN <<"delivery">>
              ELSE <<"product quality/expectation">>

\* a late-delivery rate of exactly 15% over exactly 18 days: the diagnosis is
\* product quality, behind the critical review advice
C29_Witness ==
    /\ pc = "advice"
    /\ metrics.late_delivery_pct = 150
    /\ metrics.avg_delivery_days = 180
    /\ 10 \in RulesFired
    /\ advices[PositionOf(10)].detail = <<"product quality/expectation">>
    /\ PositionOf(1) < PositionOf(10)


(***************************************************************************)
(* Properties of the strengths and weaknesses (checked under               *)
(* SpecConsulting)                                                         *)
(***************************************************************************)

\* the metric names of a returned list
NamesOf(list) == { list[i][1] : i \in 1..Len(list) }

\* the lower-is-better metrics with the Top Performer value, tenths of a day
\* and thousandths
LowerBetterTop ==
    [avg_delivery_days |-> 121, late_delivery_pct |-> 60, low_review_pct |-> 100]

\* C28: a lower-is-better metric on which the seller is more than 20% better
\* than Top Performer (top / seller > 1.2) is among the returned strengths,
\* one on which the seller is more than 2x worse (top / seller < 0.5) is among
\* the returned weaknesses, and each returned list has at most 3 entries
C28_AsStated ==
    pc = "strengths" =>
        /\ Len(strengths) <= 3
        /\ Len(weaknesses) <= 3
        /\ \A f \in DOMAIN LowerBetterTop :
              /\ (metrics[f] > 0 /\ 10 * LowerBetterTop[f] > 12 * metrics[f]) =>
                    f \in NamesOf(strengths)
              /\ (metrics[f] > 0 /\ 2 * LowerBetterTop[f] < metrics[f]) =>
                    f \in NamesOf(weaknesses)

\* what the code returns instead: three higher-is-better metrics in each
\* list, whatever the lower-is-better metrics are
OnlyHigherBetterReturned ==
    pc = "strengths" =>
        /\ Len(strengths) = 3
        /\ Len(weaknesses) = 3
        /\ (NamesOf(strengths) \cup NamesOf(weaknesses)) \cap DOMAIN LowerBetterTop = {}


(***************************************************************************)
(* Properties of the distance-bucketed delivery table (checked under       *)
(* SpecLogistics)                                                          *)
(***************************************************************************)

\* the delivered rows that enter the mean distance: delivery days present and
\* customer zip code geolocated, for a seller whose own zip code is
EnteredMean ==
    LET Entered(r) ==
            /\ r.seller_id = selected_seller_id
            /\ r.order_status = "delivered"
            /\ r.delivery_days # NaN
            /\ r.customer_zip_code_prefix \in GeolocatedZips
    IN IF seller_zip # <<>> /\ seller_zip[1] \in GeolocatedZips
       THEN SelectSeq(merged, Entered)
       ELSE <<>>

\* the rows of EnteredMean whose customer is at the seller's own point
AtZeroKm ==
    LET SamePoint(r) == r.customer_zip_code_prefix = seller_zip[1]
    IN SelectSeq(EnteredMean, SamePoint)

BucketCounts == [i \in 1..Len(distance_delivery) |-> distance_delivery[i].count]

\* C30: every row that entered the mean distance is counted in exactly one
\* of the five buckets, rows at exactly 0 km included: each bucket is listed
\* at most once and the bucket counts sum to the number of those rows
C30_AsStated ==
    pc = "distance" =>
        /\ \A i, j \in 1..Len(distance_delivery) :
              distance_delivery[i].dist_bin = distance_delivery[j].dist_bin => i = j
        /\ SeqSum(BucketCounts) = Len(EnteredMean)

\* what the code counts: the rows that entered the mean, less those at 0 km
BucketsLeaveOutZeroKm ==
    pc = "distance" =>
        SeqSum(BucketCounts) = Len(EnteredMean) - Len(AtZeroKm)

\* a customer in the seller's own zip code and one 631 km away: the mean is
\* taken over two rows, the table counts one
C30_ZeroKmDropped ==
    /\ pc = "distance"
    /\ Len(EnteredMean) = 2
    /\ avg_distance_km = 31550
    /\ SeqSum(BucketCounts) = 1

====
